---- MODULE Spec2Model ----
(***************************************************************************)
(* Model of the resumable upload engine of the YouTube uploader            *)
(* (src/youtube_client.py, constants from src/config.py).                  *)
(*                                                                         *)
(* Units: byte counts are in MiB (UPLOAD_CHUNK_SIZE = 20 MiB,              *)
(* MAX_FILE_SIZE = 256 * 1024 MiB); backoff delays are in units of         *)
(* 1 / 2^(MAX_RETRY_ATTEMPTS-1) seconds, so that every power of the        *)
(* backoff multiplier 3/2 the retry loop can compute is an integer.        *)
(***************************************************************************)
EXTENDS Integers, Sequences, FiniteSets, TLC

\* ---------------------------------------------------------------------
\* Bounds of the model
\* ---------------------------------------------------------------------
\* largest number of chunks a modelled video file is split into
MaxChunks == 3

\* ---------------------------------------------------------------------
\* Program constants (src/config.py)
\* ---------------------------------------------------------------------
UPLOAD_CHUNK_SIZE == 20

MAX_FILE_SIZE == 256 * 1024

SUPPORTED_VIDEO_FORMATS ==
    {".mp4", ".mov", ".avi", ".flv", ".wmv", ".webm", ".mkv", ".mpeg", ".mpg"}

MAX_RETRY_ATTEMPTS == 5

\* RETRY_BACKOFF_MULTIPLIER = 1.5 = BACKOFF_NUM / BACKOFF_DEN
BACKOFF_NUM == 3

BACKOFF_DEN == 2

RECURSIVE Pow(_, _)
Pow(b, e) == IF e = 0 THEN 1 ELSE b * Pow(b, e - 1)

\* number of delay units in one second
DelayUnitsPerSecond == Pow(BACKOFF_DEN, MAX_RETRY_ATTEMPTS - 1)

RETRY_INITIAL_DELAY == 1 * DelayUnitsPerSecond

RETRY_MAX_DELAY == 60 * DelayUnitsPerSecond

\* thumbnail size ceiling of _upload_thumbnail: 2 * 1024 * 1024 bytes
THUMBNAIL_MAX_SIZE == 2

THUMBNAIL_FORMATS == {".jpg", ".jpeg", ".png", ".webp"}

\* ---------------------------------------------------------------------
\* Values
\* ---------------------------------------------------------------------
None == "None"

Min(a, b) == IF a <= b THEN a ELSE b

\* str.lower() on the file suffixes the model uses
Lower(s) ==
    CASE s = ".MP4" -> ".mp4"
      [] s = ".MOV" -> ".mov"
      [] s = ".Mp4" -> ".mp4"
      [] s = ".PNG" -> ".png"
      [] s = ".JPG" -> ".jpg"
      [] OTHER -> s

\* sizes of the video files the model uploads: whole multiples of the
\* chunk size and files whose last chunk is shorter
FileSizes ==
    {n * UPLOAD_CHUNK_SIZE : n \in 1..MaxChunks}
        \cup {(n - 1) * UPLOAD_CHUNK_SIZE + 5 : n \in 1..MaxChunks}

\* what the file system reports about the path given to upload_video
Files ==
    [exists : BOOLEAN, is_file : BOOLEAN, suffix : {".mp4", ".MOV", ".txt"},
     st_size : FileSizes \cup {MAX_FILE_SIZE + 1}, readable : BOOLEAN]

\* metadata.get('recording_date'): missing, a date object, an ISO string,
\* or a string datetime.fromisoformat rejects
RecordingDates == {None, "date", "2024-01-31", "not-a-date"}

\* the metadata record, restricted to the keys that steer control flow
Metadatas == [recording_date : RecordingDates, thumbnail : {None, "thumb.jpg"}]

\* what the file system reports about the thumbnail path
ThumbFiles ==
    [exists : BOOLEAN, suffix : {".jpg", ".PNG", ".gif"},
     st_size : {THUMBNAIL_MAX_SIZE, THUMBNAIL_MAX_SIZE + 1}]

\* exceptions request.next_chunk() raises
ChunkErrors ==
    { [type |-> "TransportError", reason |-> ""],
      [type |-> "HttpError", reason |-> "backendError"],
      [type |-> "HttpError", reason |-> "quotaExceeded"],
      [type |-> "HttpError", reason |-> "forbidden"] }

CallbackError == [type |-> "CallbackError", reason |-> ""]

NoException == [type |-> None, reason |-> ""]

\* identifiers the provider issues in its final payload
RemoteIds == {"idA", "idB"}

\* `status` of a next_chunk() result; present = FALSE is Python's None
NoStatus == [present |-> FALSE, resumable_progress |-> 0, total_size |-> 0]

\* ---------------------------------------------------------------------
\* Pure functions of the client
\* ---------------------------------------------------------------------
ValidateVideoFileNoReadCheck(f) ==
    IF ~f.exists THEN "File not found"
    ELSE IF ~f.is_file THEN "Path is not a file"
    ELSE IF Lower(f.suffix) \notin SUPPORTED_VIDEO_FORMATS
        THEN "Unsupported file format"
    ELSE IF f.st_size > MAX_FILE_SIZE THEN "File size exceeds limit"
    ELSE None

ValidateVideoFileStrictSize(f) ==
    IF ~f.exists THEN "File not found"
    ELSE IF ~f.is_file THEN "Path is not a file"
    ELSE IF Lower(f.suffix) \notin SUPPORTED_VIDEO_FORMATS
        THEN "Unsupported file format"
    ELSE IF f.st_size >= MAX_FILE_SIZE THEN "File size exceeds limit"
    ELSE IF ~f.readable THEN "File is not readable"
    ELSE None

\* validate_video_file: the error raised, or None
ValidateVideoFile(f) ==
    IF ~f.exists THEN "File not found"
    ELSE IF ~f.is_file THEN "Path is not a file"
    ELSE IF Lower(f.suffix) \notin SUPPORTED_VIDEO_FORMATS
        THEN "Unsupported file format"
    ELSE IF f.st_size > MAX_FILE_SIZE THEN "File size exceeds limit"
    ELSE IF ~f.readable THEN "File is not readable"
    ELSE None

\* the descriptor validate_video_file returns
FileInfo(f) ==
    [valid |-> TRUE, file_size |-> f.st_size, file_extension |-> Lower(f.suffix)]

\* lines 181-188: does building recordingDetails raise ValueError
RecordingDateRaises(d) == d = "not-a-date"

\* _parse_http_error: error_type of an HttpError
ParseHttpError(e) ==
    IF e.reason = "quotaExceeded" THEN "quota_exceeded"
    ELSE IF e.reason = "forbidden" THEN "forbidden"
    ELSE IF e.reason = "invalidCredentials" THEN "authentication"
    ELSE "unknown"

\* the except clauses of upload_video: the failure its caller receives
HandleUploadException(e) ==
    IF e.type = "HttpError"
    THEN IF ParseHttpError(e) = "quota_exceeded"
         THEN "QuotaExceededError" ELSE "UploadError"
    ELSE "UploadError"

\* `while retry_count < config.MAX_RETRY_ATTEMPTS`
LoopGuard(rc) == rc < MAX_RETRY_ATTEMPTS

BudgetExhaustedOffByOne(rc) == rc > MAX_RETRY_ATTEMPTS

\* `if retry_count >= config.MAX_RETRY_ATTEMPTS`
BudgetExhausted(rc) == rc >= MAX_RETRY_ATTEMPTS

DelayOffByOne(n) ==
    Min((RETRY_INITIAL_DELAY * Pow(BACKOFF_NUM, n)) \div Pow(BACKOFF_DEN, n),
        RETRY_MAX_DELAY)

DelayShrinking(n) ==
    Min((RETRY_INITIAL_DELAY * Pow(BACKOFF_DEN, n - 1)) \div Pow(BACKOFF_NUM, n - 1),
        RETRY_MAX_DELAY)

\* min(RETRY_INITIAL_DELAY * RETRY_BACKOFF_MULTIPLIER ** (n - 1), RETRY_MAX_DELAY)
Delay(n) ==
    Min((RETRY_INITIAL_DELAY * Pow(BACKOFF_NUM, n - 1)) \div Pow(BACKOFF_DEN, n - 1),
        RETRY_MAX_DELAY)

InvokesCallbackAlways(status, cb) == cb

\* `if status:` ... `if progress_callback:`
InvokesCallback(status, cb) == status.present /\ cb

BytesUploadedRemaining(status) == status.total_size - status.resumable_progress

\* bytes_uploaded = status.resumable_progress
BytesUploaded(status) == status.resumable_progress

\* response.get('id', '')
ResponseGetId(resp) == IF resp.id = None THEN "" ELSE resp.id

\* _upload_thumbnail: the exception it raises (always UploadError), or None
UploadThumbnailError(t, providerOk) ==
    IF ~t.exists THEN "UploadError"
    ELSE IF Lower(t.suffix) \notin THUMBNAIL_FORMATS THEN "UploadError"
    ELSE IF t.st_size > THUMBNAIL_MAX_SIZE THEN "UploadError"
    ELSE IF ~providerOk THEN "UploadError"
    ELSE None

ThumbnailIsSentAnySize(t) ==
    t.exists /\ Lower(t.suffix) \in THUMBNAIL_FORMATS

\* does _upload_thumbnail reach thumbnails().set(...).execute()
ThumbnailIsSent(t) ==
    t.exists /\ Lower(t.suffix) \in THUMBNAIL_FORMATS /\ t.st_size <= THUMBNAIL_MAX_SIZE

AfterThumbnailPropagate(exc) == IF exc = None THEN "success" ELSE exc

\* lines 234-246: `except Exception` around _upload_thumbnail, then return
AfterThumbnail(exc) == "success"

\* index (from 1) of the chunk that starts at byte offset p
ChunkAt(p) == (p \div UPLOAD_CHUNK_SIZE) + 1

\* number of chunks of a file of `size` bytes
NumChunks(size) == (size + UPLOAD_CHUNK_SIZE - 1) \div UPLOAD_CHUNK_SIZE


\* chunks the send log has room for: those of the largest file uploaded
ChunkSlots == IF MaxChunks > MAX_RETRY_ATTEMPTS THEN MaxChunks ELSE MAX_RETRY_ATTEMPTS

\* a video file of as many chunks as the retry budget has attempts, and the
\* same path with no file behind it
LongFiles ==
    [exists : BOOLEAN, is_file : {TRUE}, suffix : {".mp4"},
     st_size : {MAX_RETRY_ATTEMPTS * UPLOAD_CHUNK_SIZE}, readable : {TRUE}]

\* the success record upload_video returns
SuccessRecord(vid, info) ==
    [success |-> TRUE, video_id |-> vid,
     video_url |-> <<"https://www.youtube.com/watch?v=", vid>>,
     file_size |-> info.file_size]

NoResult == [success |-> FALSE, video_id |-> "", video_url |-> <<>>, file_size |-> 0]

NoFileInfo == [valid |-> FALSE, file_size |-> 0, file_extension |-> ""]

NoResponse == [present |-> FALSE, id |-> None]

NoThumbFile == [exists |-> FALSE, suffix |-> "", st_size |-> 0]

\* the exception _execute_upload_with_retry raises; attempts is the count
\* its message reports (None when the message has no count)
NoInnerException == [type |-> None, attempts |-> None]

\* files given to validate_video_file on its own: sizes around the ceiling
\* and suffixes in lower, upper and mixed case
ValidatorFiles ==
    [exists : BOOLEAN, is_file : BOOLEAN,
     suffix : {".mp4", ".MOV", ".Mp4", ".txt", ""},
     st_size : {0, UPLOAD_CHUNK_SIZE, MAX_FILE_SIZE - 1, MAX_FILE_SIZE,
                MAX_FILE_SIZE + 1},
     readable : BOOLEAN]

\* outcome of a validate_video_file call: the FileValidationError message
\* raised (None when it returned) and the descriptor returned
NotValidated == [called |-> FALSE, error |-> None, info |-> NoFileInfo]

\* ---------------------------------------------------------------------
\* State
\* ---------------------------------------------------------------------
VARIABLES
    vfile,             \* the file a direct validate_video_file call is given
    vresult            \* what that call raised or returned

validateVars == <<vfile, vresult>>


\* ---------------------------------------------------------------------
\* Credential manager (src/oauth_manager.py): bounds
\* ---------------------------------------------------------------------
\* last instant of the clock
MaxTime == 2

\* number of access tokens the provider issues in a run
MaxIssued == 2

\* longest lifetime, in clock ticks, of an issued access token
MaxTTL == 1

\* ---------------------------------------------------------------------
\* Credential manager: values
\* ---------------------------------------------------------------------
\* threads that may call into one OAuthManager instance
AllThreads == {"t1", "t2"}

\* Python's None where a datetime or an ISO string is expected
NoneTime == [kind |-> "none", t |-> 0]

DateTime(t) == [kind |-> "datetime", t |-> t]

IsoFormatTruncated(d) == [kind |-> "isostr", t |-> 0]

\* datetime.isoformat()
IsoFormat(d) == [kind |-> "isostr", t |-> d.t]

\* datetime.fromisoformat()
FromIsoFormat(s) == [kind |-> "datetime", t |-> s.t]

\* 'token_uri' of client_config, line 220
TOKEN_URI == "https://oauth2.googleapis.com/token"

\* config.OAUTH_SCOPES
OAUTH_SCOPES == <<"youtube.upload", "youtube">>

\* the client_id and client_secret the manager is constructed with
CLIENT_ID == "client_id"

CLIENT_SECRET == "client_secret"

\* a google.oauth2 Credentials object; present = FALSE is Python's None
NoCredentials ==
    [present |-> FALSE, token |-> 0, refresh_token |-> None, token_uri |-> None,
     client_id |-> None, client_secret |-> None, scopes |-> <<>>,
     expiry |-> NoneTime]

\* Credentials.expired at clock value t
Expired(c, t) == c.expiry.kind # "none" /\ t >= c.expiry.t

\* `credentials and credentials.valid`
Valid(c, t) == c.present /\ ~Expired(c, t)

\* `credentials and credentials.expired and credentials.refresh_token`
Refreshable(c, t) == c.present /\ Expired(c, t) /\ c.refresh_token # None

RefreshedTokenOnly(c, tok, exp) == [c EXCEPT !.token = tok]

\* credentials.refresh(Request()): new access token and expiry
Refreshed(c, tok, exp) == [c EXCEPT !.token = tok, !.expiry = exp]

NoTokenData ==
    [token |-> 0, refresh_token |-> None, token_uri |-> None, client_id |-> None,
     client_secret |-> None, scopes |-> <<>>, expiry |-> NoneTime]

TokenDataNoRefreshToken(c) ==
    [token |-> c.token, refresh_token |-> None, token_uri |-> c.token_uri,
     client_id |-> c.client_id, client_secret |-> c.client_secret,
     scopes |-> c.scopes,
     expiry |-> IF c.expiry.kind # "none" THEN IsoFormat(c.expiry) ELSE NoneTime]

TokenDataStaleToken(c) ==
    [token |-> 0, refresh_token |-> c.refresh_token,
     token_uri |-> c.token_uri, client_id |-> c.client_id,
     client_secret |-> c.client_secret, scopes |-> c.scopes,
     expiry |-> IF c.expiry.kind # "none" THEN IsoFormat(c.expiry) ELSE NoneTime]

\* token_data of _save_credentials
TokenData(c) ==
    [token |-> c.token, refresh_token |-> c.refresh_token,
     token_uri |-> c.token_uri, client_id |-> c.client_id,
     client_secret |-> c.client_secret, scopes |-> c.scopes,
     expiry |-> IF c.expiry.kind # "none" THEN IsoFormat(c.expiry) ELSE NoneTime]

EncryptWithOtherKey(key, data) == [kind |-> "fernet", key |-> key + 1, data |-> data]

\* _encrypt_token: a Fernet token made with `key`
Encrypt(key, data) == [kind |-> "fernet", key |-> key, data |-> data]

\* content of a file just opened with mode 'wb'
EmptyBlob == [kind |-> "empty", key |-> 0, data |-> NoTokenData]

\* content that is no Fernet token at all (a truncated blob)
GarbageBlob == [kind |-> "garbage", key |-> 0, data |-> NoTokenData]

\* _decrypt_token succeeds
CanDecrypt(key, blob) == blob.kind = "fernet" /\ blob.key = key

CredentialsFromNoExpiry(data) ==
    [present |-> TRUE, token |-> data.token, refresh_token |-> data.refresh_token,
     token_uri |-> data.token_uri, client_id |-> data.client_id,
     client_secret |-> data.client_secret, scopes |-> data.scopes,
     expiry |-> NoneTime]

\* lines 145-156: the Credentials built from token_data
CredentialsFrom(data) ==
    [present |-> TRUE, token |-> data.token, refresh_token |-> data.refresh_token,
     token_uri |-> data.token_uri, client_id |-> data.client_id,
     client_secret |-> data.client_secret, scopes |-> data.scopes,
     expiry |-> IF data.expiry.kind # "none"
                THEN FromIsoFormat(data.expiry) ELSE NoneTime]

AbsentFile == [exists |-> FALSE, content |-> EmptyBlob, mode |-> "none"]

\* _load_credentials: None when the file is missing or anything raises
LoadCredentials(tf, key) ==
    IF ~tf.exists THEN NoCredentials
    ELSE IF CanDecrypt(key, tf.content) THEN CredentialsFrom(tf.content.data)
    ELSE NoCredentials

\* the four states of the credential manager (and the undecryptable blob),
\* computed from the persisted record at clock value t
ManagerState(tf, key, t) ==
    IF ~tf.exists THEN "Unauthenticated"
    ELSE IF ~CanDecrypt(key, tf.content) THEN "Corrupt"
    ELSE IF ~Expired(CredentialsFrom(tf.content.data), t) THEN "Valid"
    ELSE IF tf.content.data.refresh_token # None THEN "ExpiredRefreshable"
    ELSE "ExpiredTerminal"

ClearedMemoryKept(mem) == mem

\* line 293: self.credentials = None
ClearedMemory(mem) == NoCredentials

\* credential records found on disk when the manager is constructed
StoredRecords ==
    [present : {TRUE}, token : {0}, refresh_token : {None, "rt0"},
     token_uri : {TOKEN_URI}, client_id : {CLIENT_ID},
     client_secret : {CLIENT_SECRET}, scopes : {OAUTH_SCOPES},
     expiry : {NoneTime, DateTime(0), DateTime(1)}]

\* the key of the manager's key file, and a key the blob may have been
\* written with before the key file was replaced
ManagerKey == 1

RotatedKey == 2

\* states of the token file when the manager is constructed
StoredTokenFiles ==
    {AbsentFile}
        \cup {[exists |-> TRUE, content |-> Encrypt(k, TokenData(c)), mode |-> "0600"] :
                 k \in {ManagerKey, RotatedKey}, c \in StoredRecords}
        \cup {[exists |-> TRUE, content |-> GarbageBlob, mode |-> "0600"]}

\* the call a thread is making or has last made, with what it found
NoCall ==
    [op |-> "none", via |-> "none", state0 |-> "none", blob0 |-> AbsentFile,
     mem0 |-> NoCredentials, refreshes |-> 0, flows |-> 0]

\* what a call returned or raised
NotCalled == [kind |-> "not_called", value |-> NoCredentials, exc |-> None]

Running == [kind |-> "running", value |-> NoCredentials, exc |-> None]

Returned(c) == [kind |-> "returned", value |-> c, exc |-> None]

Raised(e) == [kind |-> "raised", value |-> NoCredentials, exc |-> e]

VARIABLES
    threads,           \* the threads that call into the manager
    now,               \* the clock
    issued,            \* access tokens issued by the provider so far
    key_file,          \* config.OAUTH_ENCRYPTION_KEY_FILE
    fernet,            \* self.fernet: the key loaded at construction
    token_file,        \* config.OAUTH_TOKEN_FILE
    credentials,       \* self.credentials
    apc,               \* position of each thread in its call
    creds,             \* local `credentials` of each thread
    call,              \* the call each thread is making or last made
    ret,               \* what that call returned or raised
    listeners,         \* threads with a callback listener open on OAUTH_PORT
    orphaned,          \* threads writing to a token file that was unlinked
    refresh_failed,    \* a refresh failed and nothing was persisted since
    read_partial       \* a load read the token file between open and write

keyVars == <<key_file, fernet>>

authVars ==
    <<threads, now, issued, key_file, fernet, token_file, credentials, apc,
      creds, call, ret, listeners, orphaned, refresh_failed, read_partial>>

\* no call has been made on the manager
CallsIdle ==
    /\ now = 0
    /\ issued = 0
    /\ fernet = ManagerKey
    /\ credentials = NoCredentials
    /\ apc = [t \in AllThreads |-> "idle"]
    /\ creds = [t \in AllThreads |-> NoCredentials]
    /\ call = [t \in AllThreads |-> NoCall]
    /\ ret = [t \in AllThreads |-> NotCalled]
    /\ listeners = {}
    /\ orphaned = {}
    /\ refresh_failed = FALSE
    /\ read_partial = FALSE

\* a constructed manager on which no call has been made
ManagerIdle ==
    /\ key_file = [exists |-> TRUE, key |-> ManagerKey, mode |-> "0600"]
    /\ CallsIdle

\* no thread calls into the manager during the run
ManagerUnused ==
    /\ threads = {}
    /\ token_file = AbsentFile
    /\ ManagerIdle

\* ---------------------------------------------------------------------
\* Key file handling, persist/retrieve round trip, request body: values
\* ---------------------------------------------------------------------
\* number of OAuthManager instances constructed in a run
MaxManagers == 4

Managers == 1..MaxManagers

\* Fernet.generate_key(): the n-th key generated in a run
GenerateKey(n) == RotatedKey + n

NoKey == 0

AbsentKeyFile == [exists |-> FALSE, key |-> NoKey, mode |-> "none"]

\* key files left by an earlier run
StoredKeyFiles ==
    {[exists |-> TRUE, key |-> k, mode |-> "0600"] : k \in {ManagerKey, RotatedKey}}

\* credential records given to _save_credentials: refresh token and expiry
\* populated
RoundTripRecords ==
    [present : {TRUE}, token : {1, 2}, refresh_token : {"rt0", "rt"},
     token_uri : {TOKEN_URI}, client_id : {CLIENT_ID, "other_id"},
     client_secret : {CLIENT_SECRET, "other_secret"},
     scopes : {OAUTH_SCOPES, <<"youtube.upload">>},
     expiry : {DateTime(t) : t \in 0..MaxTime}]

\* a key missing from the metadata dict
Missing == "<missing>"

\* metadata.get('title'): missing, empty, blank, or a real title
Titles == {Missing, "", "   ", "My video"}

\* metadata.get('category'): missing, two category ids of the provider, and
\* an id the provider does not know
Categories == {Missing, "22", "10", "999"}

\* metadata.get('video_language'): missing, None, names in and outside the
\* language table
Languages == {Missing, None, "English", "Thai", "Other", "Klingon", "thai"}

PrivacyStatuses == {Missing, "public"}

\* the metadata dict, restricted to the keys that fill the request body
FullMetadatas ==
    [title : Titles, category : Categories, video_language : Languages,
     privacy_status : PrivacyStatuses]

NoMetadata ==
    [title |-> Missing, category |-> Missing, video_language |-> Missing,
     privacy_status |-> Missing]

NoBody ==
    [built |-> FALSE, title |-> "", categoryId |-> "", defaultAudioLanguage |-> "",
     privacyStatus |-> ""]

\* st.session_state after initialize_session_state() on a new session
InitialSessionState ==
    [authenticated |-> FALSE, youtube_client |-> FALSE, uploaded_file |-> FALSE,
     upload_progress |-> 0, upload_complete |-> FALSE, upload_result |-> NoResult,
     error_message |-> None, upload_clicked |-> FALSE]

\* the file uploader is empty and the title field is blank
NoWidgets == [video_uploader |-> FALSE, video_title |-> FALSE]

\* a manager in its constructor: position, local `key`
NotConstructed == [at |-> "new", key |-> NoKey]

VARIABLES
    kpc,               \* position of each manager in its construction
    fernets,           \* self.fernet of each manager
    generated,         \* keys generated by Fernet.generate_key() so far
    record,            \* the Credentials given to _save_credentials
    retrieved,         \* what _load_credentials returned afterwards
    full_metadata,     \* the metadata argument with its body keys
    body,              \* the request body built from it
    result_title,      \* 'title' of the success record
    session_state,     \* st.session_state of one browser session
    widgets,           \* what the user has put into the form's widgets
    script,            \* idle, a rerun requested, or inside upload_video
    clicks,            \* clicks on the upload button so far
    invocations        \* handle_upload() invocations so far

constructVars == <<kpc, fernets, generated>>

roundTripVars == <<record, retrieved>>

bodyVars == <<full_metadata, body, result_title>>

appVars == <<session_state, widgets, script, clicks, invocations>>

extraVars == <<constructVars, roundTripVars, bodyVars, appVars>>

\* no manager is constructed during the run
ConstructUnused ==
    /\ kpc = [m \in Managers |-> NotConstructed]
    /\ fernets = [m \in Managers |-> NoKey]
    /\ generated = 0

RoundTripUnused ==
    /\ record = NoCredentials
    /\ retrieved = NoCredentials

BodyUnused ==
    /\ full_metadata = NoMetadata
    /\ body = NoBody
    /\ result_title = None

\* the application is not running
AppUnused ==
    /\ session_state = InitialSessionState
    /\ widgets = NoWidgets
    /\ script = "idle"
    /\ clicks = 0
    /\ invocations = 0

nonUploadVars == <<validateVars, authVars, extraVars>>

VARIABLES
    pc,                \* position of the upload_video call
    file,              \* the file at file_path, as the file system reports it
    metadata,          \* the metadata argument
    progress_callback, \* TRUE iff a progress callback was passed
    file_info,         \* result of validate_video_file
    sessions,          \* upload requests (resumable sessions) created
    network_calls,     \* calls made to the provider
    resumable_progress,\* bytes the provider has acknowledged
    status,            \* status of the last next_chunk() result
    response,          \* response of the last next_chunk() result
    retry_count,       \* local of _execute_upload_with_retry
    last_exception,    \* local of _execute_upload_with_retry
    delay,             \* argument of the pending time.sleep
    inner_exception,   \* what _execute_upload_with_retry raised
    video_id,          \* local of upload_video
    outcome,           \* what the caller of upload_video receives
    result,            \* the record returned on success
    attempts,          \* number of next_chunk() calls made
    send_failures,     \* number of next_chunk() calls that raised
    chunk_attempts,    \* next_chunk() calls per chunk
    chunk_fails,       \* next_chunk() calls that raised, per chunk
    saw_rejection,     \* a next_chunk() call raised a non-retryable HttpError
    cb_calls,          \* bytes_uploaded of every callback invocation
    cb_failures,       \* number of callback invocations that raised
    delays,            \* durations of the completed time.sleep calls
    thumb_file,        \* the thumbnail file as _upload_thumbnail found it
    thumbnail_exception, \* what _upload_thumbnail raised
    thumbnail_sends    \* thumbnails().set().execute() calls

uploadVars ==
    <<pc, file, metadata, progress_callback, file_info, sessions,
      network_calls, resumable_progress, status, response, retry_count,
      last_exception, delay, inner_exception, video_id, outcome, result,
      attempts, send_failures, chunk_attempts, chunk_fails, saw_rejection,
      cb_calls, cb_failures, delays, thumb_file, thumbnail_exception,
      thumbnail_sends>>

vars == <<uploadVars, nonUploadVars>>

inputVars == <<file, metadata, progress_callback>>

loopVars == <<retry_count, last_exception, delay, inner_exception>>

providerVars == <<sessions, network_calls, resumable_progress, status, response>>

sendLogVars == <<attempts, send_failures, chunk_attempts, chunk_fails, saw_rejection>>

callbackLogVars == <<cb_calls, cb_failures>>

resultVars == <<video_id, outcome, result>>

thumbVars == <<thumb_file, thumbnail_exception, thumbnail_sends>>

\* no direct validator call is part of the run
ValidatorUnused ==
    /\ vfile = [exists |-> FALSE, is_file |-> FALSE, suffix |-> "", st_size |-> 0,
                readable |-> FALSE]
    /\ vresult = NotValidated

\* the upload engine before upload_video has started; the arguments are
\* set by the initial predicate of each specification
UploadIdle ==
    /\ pc = "idle"
    /\ file_info = NoFileInfo
    /\ sessions = 0
    /\ network_calls = 0
    /\ resumable_progress = 0
    /\ status = NoStatus
    /\ response = NoResponse
    /\ retry_count = 0
    /\ last_exception = NoException
    /\ delay = 0
    /\ inner_exception = NoInnerException
    /\ video_id = ""
    /\ outcome = None
    /\ result = NoResult
    /\ attempts = 0
    /\ send_failures = 0
    /\ chunk_attempts = [c \in 1..ChunkSlots |-> 0]
    /\ chunk_fails = [c \in 1..ChunkSlots |-> 0]
    /\ saw_rejection = FALSE
    /\ cb_calls = <<>>
    /\ cb_failures = 0
    /\ delays = <<>>
    /\ thumb_file = NoThumbFile
    /\ thumbnail_exception = None
    /\ thumbnail_sends = 0

Init ==
    /\ file \in Files
    /\ metadata \in Metadatas
    /\ progress_callback \in BOOLEAN
    /\ UploadIdle
    /\ ValidatorUnused
    /\ ManagerUnused
    /\ ConstructUnused
    /\ RoundTripUnused
    /\ BodyUnused
    /\ AppUnused

\* ---------------------------------------------------------------------
\* upload_video, up to the chunk loop
\* ---------------------------------------------------------------------
\* line 163: validate_video_file raises FileValidationError
ValidationFails ==
    /\ pc = "idle"
    /\ ValidateVideoFile(file) # None
    /\ outcome' = "FileValidationError"
    /\ pc' = "done"
    /\ UNCHANGED nonUploadVars
    /\ UNCHANGED <<inputVars, file_info, providerVars, loopVars, video_id,
                   result, sendLogVars, callbackLogVars, delays, thumbVars>>

\* lines 181-188: datetime.fromisoformat raises outside the try block
PrepareBodyFails ==
    /\ pc = "idle"
    /\ ValidateVideoFile(file) = None
    /\ RecordingDateRaises(metadata.recording_date)
    /\ file_info' = FileInfo(file)
    /\ outcome' = "ValueError"
    /\ pc' = "done"
    /\ UNCHANGED nonUploadVars
    /\ UNCHANGED <<inputVars, providerVars, loopVars, video_id,
                   result, sendLogVars, callbackLogVars, delays, thumbVars>>

\* lines 206-217: MediaFileUpload(...) or videos().insert(...) raises
OpenSessionFails ==
    /\ pc = "idle"
    /\ ValidateVideoFile(file) = None
    /\ ~RecordingDateRaises(metadata.recording_date)
    /\ file_info' = FileInfo(file)
    /\ outcome' = HandleUploadException([type |-> "OSError", reason |-> ""])
    /\ pc' = "done"
    /\ UNCHANGED nonUploadVars
    /\ UNCHANGED <<inputVars, providerVars, loopVars, video_id,
                   result, sendLogVars, callbackLogVars, delays, thumbVars>>

\* lines 163-225 and 288-291: the request is created and the retry loop entered
OpenSession ==
    /\ pc = "idle"
    /\ ValidateVideoFile(file) = None
    /\ ~RecordingDateRaises(metadata.recording_date)
    /\ file_info' = FileInfo(file)
    /\ sessions' = sessions + 1
    /\ retry_count' = 0
    /\ last_exception' = NoException
    /\ IF LoopGuard(0)
       THEN /\ pc' = "send"
            /\ UNCHANGED <<inner_exception, outcome>>
       ELSE /\ inner_exception' = [type |-> "NetworkError", attempts |-> None]
            /\ outcome' = HandleUploadException([type |-> "NetworkError", reason |-> ""])
            /\ pc' = "done"
    /\ UNCHANGED nonUploadVars
    /\ UNCHANGED <<inputVars, network_calls, resumable_progress, status,
                   response, delay, video_id, result, sendLogVars,
                   callbackLogVars, delays, thumbVars>>

\* ---------------------------------------------------------------------
\* _execute_upload_with_retry
\* ---------------------------------------------------------------------
HandleRetryNoCount(e) ==
    /\ last_exception' = e
    /\ retry_count' = retry_count
    /\ delay' = Delay(retry_count + 1)
    /\ pc' = "sleep"
    /\ UNCHANGED <<inner_exception, outcome>>

HandleRetryPerChunk(e) ==
    LET n == chunk_fails[ChunkAt(resumable_progress)] + 1 IN
    /\ last_exception' = e
    /\ retry_count' = n
    /\ IF BudgetExhausted(n)
       THEN /\ inner_exception' = [type |-> "NetworkError", attempts |-> n]
            /\ outcome' = HandleUploadException([type |-> "NetworkError", reason |-> ""])
            /\ pc' = "done"
            /\ UNCHANGED delay
       ELSE /\ delay' = Delay(n)
            /\ pc' = "sleep"
            /\ UNCHANGED <<inner_exception, outcome>>

\* lines 309-326: the except clause, up to the raise or the time.sleep call
HandleRetry(e) ==
    /\ last_exception' = e
    /\ retry_count' = retry_count + 1
    /\ IF BudgetExhausted(retry_count + 1)
       THEN /\ inner_exception' = [type |-> "NetworkError", attempts |-> retry_count + 1]
            /\ outcome' = HandleUploadException([type |-> "NetworkError", reason |-> ""])
            /\ pc' = "done"
            /\ UNCHANGED delay
       ELSE /\ delay' = Delay(retry_count + 1)
            /\ pc' = "sleep"
            /\ UNCHANGED <<inner_exception, outcome>>

\* lines 294, 307 and 227-246: the inner loop ends or goes round again
LoopTail(resp) ==
    IF ~resp.present
    THEN /\ pc' = "send"
         /\ UNCHANGED resultVars
    ELSE /\ video_id' = ResponseGetId(resp)
         /\ IF metadata.thumbnail # None
            THEN /\ pc' = "thumbnail"
                 /\ UNCHANGED <<outcome, result>>
            ELSE /\ pc' = "done"
                 /\ outcome' = "success"
                 /\ result' = SuccessRecord(ResponseGetId(resp), file_info)

\* lines 295-301: what follows a next_chunk() that returned (st, resp)
AfterNextChunk(st, resp) ==
    /\ status' = st
    /\ response' = resp
    /\ IF InvokesCallback(st, progress_callback)
       THEN /\ cb_calls' = Append(cb_calls, BytesUploaded(st))
            /\ pc' = "callback"
            /\ UNCHANGED <<resultVars, cb_failures>>
       ELSE /\ LoopTail(resp)
            /\ UNCHANGED callbackLogVars

\* bookkeeping of one next_chunk() call on the chunk at the current offset
LogSend(failed, rejected) ==
    LET c == ChunkAt(resumable_progress) IN
    /\ attempts' = attempts + 1
    /\ network_calls' = network_calls + 1
    /\ chunk_attempts' = [chunk_attempts EXCEPT ![c] = @ + 1]
    /\ chunk_fails' = [chunk_fails EXCEPT ![c] = @ + (IF failed THEN 1 ELSE 0)]
    /\ send_failures' = send_failures + (IF failed THEN 1 ELSE 0)
    /\ saw_rejection' = (saw_rejection \/ rejected)

\* line 295: the provider acknowledges a chunk that is not the last (308)
NextChunkContinue ==
    /\ pc = "send"
    /\ file_info.file_size - resumable_progress > UPLOAD_CHUNK_SIZE
    /\ LogSend(FALSE, FALSE)
    /\ resumable_progress' = resumable_progress + UPLOAD_CHUNK_SIZE
    /\ AfterNextChunk([present |-> TRUE,
                       resumable_progress |-> resumable_progress + UPLOAD_CHUNK_SIZE,
                       total_size |-> file_info.file_size],
                      NoResponse)
    /\ UNCHANGED nonUploadVars
    /\ UNCHANGED <<inputVars, file_info, sessions, loopVars, delays, thumbVars>>

\* line 295: the provider answers the last chunk with the final payload (200/201)
NextChunkFinal ==
    /\ pc = "send"
    /\ file_info.file_size - resumable_progress <= UPLOAD_CHUNK_SIZE
    /\ LogSend(FALSE, FALSE)
    /\ resumable_progress' = file_info.file_size
    /\ \E id \in RemoteIds \cup {None} :
          AfterNextChunk(NoStatus, [present |-> TRUE, id |-> id])
    /\ UNCHANGED nonUploadVars
    /\ UNCHANGED <<inputVars, file_info, sessions, loopVars, delays, thumbVars>>

ResumeOffsetRestart(p) == 0

\* the offset the same request resumes from after next_chunk() raised: the
\* bytes the provider has acknowledged
ResumeOffset(p) == p

\* lines 295 and 309-326: next_chunk() raises
NextChunkRaises ==
    /\ pc = "send"
    /\ \E e \in ChunkErrors :
          /\ LogSend(TRUE, e.type = "HttpError" /\ e.reason # "backendError")
          /\ HandleRetry(e)
    /\ resumable_progress' = ResumeOffset(resumable_progress)
    /\ UNCHANGED nonUploadVars
    /\ UNCHANGED <<inputVars, file_info, sessions, status,
                   response, video_id, result, callbackLogVars, delays, thumbVars>>

\* line 301: the callback returns
ProgressCallbackReturns ==
    /\ pc = "callback"
    /\ LoopTail(response)
    /\ UNCHANGED nonUploadVars
    /\ UNCHANGED <<inputVars, file_info, providerVars, loopVars, sendLogVars,
                   callbackLogVars, delays, thumbVars>>

ProgressCallbackPropagates ==
    /\ pc = "callback"
    /\ cb_failures' = cb_failures + 1
    /\ outcome' = "CallbackError"
    /\ pc' = "done"
    /\ UNCHANGED nonUploadVars
    /\ UNCHANGED <<inputVars, file_info, providerVars, loopVars, video_id, result,
                   sendLogVars, cb_calls, delays, thumbVars>>

\* lines 301 and 309-326: the callback raises
ProgressCallbackRaises ==
    /\ pc = "callback"
    /\ cb_failures' = cb_failures + 1
    /\ HandleRetry(CallbackError)
    /\ UNCHANGED nonUploadVars
    /\ UNCHANGED <<inputVars, file_info, providerVars, video_id, result,
                   sendLogVars, cb_calls, delays, thumbVars>>

\* lines 326, 291 and 328: time.sleep(delay) returns, the loop guard is tested
BackoffWait ==
    /\ pc = "sleep"
    /\ delays' = Append(delays, delay)
    /\ IF LoopGuard(retry_count)
       THEN /\ pc' = "send"
            /\ UNCHANGED <<inner_exception, outcome>>
       ELSE /\ inner_exception' = [type |-> "NetworkError", attempts |-> None]
            /\ outcome' = HandleUploadException([type |-> "NetworkError", reason |-> ""])
            /\ pc' = "done"
    /\ UNCHANGED nonUploadVars
    /\ UNCHANGED <<inputVars, file_info, providerVars, retry_count,
                   last_exception, delay, video_id, result, sendLogVars,
                   callbackLogVars, thumbVars>>

\* ---------------------------------------------------------------------
\* thumbnail stage
\* ---------------------------------------------------------------------
\* lines 232-246 and _upload_thumbnail
UploadThumbnail ==
    /\ pc = "thumbnail"
    /\ \E t \in ThumbFiles, providerOk \in BOOLEAN :
          /\ thumb_file' = t
          /\ thumbnail_sends' = thumbnail_sends + (IF ThumbnailIsSent(t) THEN 1 ELSE 0)
          /\ network_calls' = network_calls + (IF ThumbnailIsSent(t) THEN 1 ELSE 0)
          /\ thumbnail_exception' = UploadThumbnailError(t, providerOk)
          /\ outcome' = AfterThumbnail(UploadThumbnailError(t, providerOk))
    /\ result' = IF outcome' = "success"
                 THEN SuccessRecord(video_id, file_info) ELSE NoResult
    /\ pc' = "done"
    /\ UNCHANGED nonUploadVars
    /\ UNCHANGED <<inputVars, file_info, sessions, resumable_progress, status,
                   response, loopVars, video_id, sendLogVars, callbackLogVars,
                   delays>>

Next ==
    \/ ValidationFails
    \/ PrepareBodyFails
    \/ OpenSessionFails
    \/ OpenSession
    \/ NextChunkContinue
    \/ NextChunkFinal
    \/ NextChunkRaises
    \/ ProgressCallbackReturns
    \/ ProgressCallbackRaises
    \/ BackoffWait
    \/ UploadThumbnail

Spec == Init /\ [][Next]_vars

TypeOK ==
    /\ pc \in {"idle", "send", "callback", "sleep", "thumbnail", "done"}
    /\ retry_count \in 0..MAX_RETRY_ATTEMPTS
    /\ resumable_progress \in 0..(MaxChunks * UPLOAD_CHUNK_SIZE)
    /\ outcome \in {None, "success", "FileValidationError", "QuotaExceededError",
                    "NetworkError", "UploadError", "ValueError"}


\* ---------------------------------------------------------------------
\* Properties of the upload engine
\* ---------------------------------------------------------------------
\* the errors the retry policy is meant to retry: transport failures and
\* provider-side 5xx answers
Retryable(e) == e.type = "TransportError" \/ (e.type = "HttpError" /\ e.reason = "backendError")

\* every next_chunk() call so far raised a retryable error
AllSendsFailedTransiently ==
    attempts > 0 /\ attempts = send_failures /\ ~saw_rejection /\ cb_failures = 0

\* the chunk loop of a created request has returned or raised
LoopFinished == sessions = 1 /\ pc \in {"thumbnail", "done"}

NonDecreasing(seq) == \A i \in 1..(Len(seq) - 1) : seq[i] <= seq[i + 1]

\* the five checks of the validator, stated on the file itself
FilePassesChecks(f) ==
    /\ f.exists
    /\ f.is_file
    /\ Lower(f.suffix) \in SUPPORTED_VIDEO_FORMATS
    /\ f.st_size <= MAX_FILE_SIZE
    /\ f.readable

\* C1: when every chunk send fails with a retryable transport error and the
\* retry budget is exhausted, the caller of upload_video receives NetworkError.
C1_NetworkErrorReachesCaller ==
    (pc = "done" /\ AllSendsFailedTransiently /\ inner_exception.type = "NetworkError")
        => outcome = "NetworkError"

\* C2: a chunk send that raises a non-retryable provider error aborts the
\* upload at once: the retry counter is not incremented and neither a backoff
\* wait nor another chunk send follows.
C2_RejectionAbortsImmediately ==
    [][(send_failures' = send_failures + 1 /\ ~Retryable(last_exception'))
          => (retry_count' = retry_count /\ pc' = "done")]_vars

\* C3: an upload ended by a quotaExceeded rejection of a chunk send surfaces
\* QuotaExceededError; one ended by any other provider rejection surfaces
\* UploadError.
C3_QuotaExceededSurfaced ==
    (pc = "done" /\ inner_exception.type # None /\ last_exception.type = "HttpError"
        /\ ~Retryable(last_exception))
        => outcome = (IF last_exception.reason = "quotaExceeded"
                      THEN "QuotaExceededError" ELSE "UploadError")

\* C4: when every chunk send fails transiently, the retry loop makes exactly
\* MAX_RETRY_ATTEMPTS next_chunk() calls before it raises NetworkError, never
\* more, and the count in the error equals the number of calls made.
C4_ExactlyMaxAttempts ==
    AllSendsFailedTransiently
        => /\ attempts <= MAX_RETRY_ATTEMPTS
           /\ (attempts = MAX_RETRY_ATTEMPTS => inner_exception.type = "NetworkError")
           /\ inner_exception.type = "NetworkError"
                => (attempts = MAX_RETRY_ATTEMPTS /\ inner_exception.attempts = attempts)

C4_Witness ==
    /\ pc = "done"
    /\ AllSendsFailedTransiently
    /\ inner_exception = [type |-> "NetworkError", attempts |-> MAX_RETRY_ATTEMPTS]
    /\ Len(delays) = MAX_RETRY_ATTEMPTS - 1

\* C5: when k < MAX_RETRY_ATTEMPTS chunk sends in all fail transiently (and
\* nothing else fails), the chunk loop ends with the provider's final
\* response, every chunk was sent once more than it failed (k+1 attempts for a
\* chunk that failed k times), and exactly k backoff waits happened, with
\* non-decreasing durations of at most RETRY_MAX_DELAY.
C5_RetryThenSucceed ==
    (LoopFinished /\ ~saw_rejection /\ cb_failures = 0
        /\ send_failures < MAX_RETRY_ATTEMPTS)
        => /\ response.present
           /\ inner_exception.type = None
           /\ pc = "done" => outcome = "success"
           /\ \A c \in 1..NumChunks(file_info.file_size) :
                 chunk_attempts[c] = chunk_fails[c] + 1
           /\ attempts = NumChunks(file_info.file_size) + send_failures
           /\ Len(delays) = send_failures
           /\ NonDecreasing(delays)
           /\ \A i \in 1..Len(delays) : delays[i] <= RETRY_MAX_DELAY

C5_Witness ==
    /\ pc = "done"
    /\ outcome = "success"
    /\ ~saw_rejection
    /\ cb_failures = 0
    /\ NumChunks(file_info.file_size) >= 2
    /\ \E c \in 1..MaxChunks :
          /\ chunk_fails[c] = MAX_RETRY_ATTEMPTS - 1
          /\ chunk_attempts[c] = MAX_RETRY_ATTEMPTS
    /\ Len(delays) = MAX_RETRY_ATTEMPTS - 1
    /\ delays[1] < delays[Len(delays)]

\* a full upload with a callback and no failure of any kind has completed
CleanUploadDone ==
    /\ pc = "done"
    /\ outcome = "success"
    /\ progress_callback
    /\ send_failures = 0
    /\ cb_failures = 0

\* C6 as stated: in a full upload of N chunks without failures the callback
\* is invoked N times and the last value passed equals the file size.
C6_CallbackPerChunk ==
    CleanUploadDone
        => /\ Len(cb_calls) = NumChunks(file_info.file_size)
           /\ cb_calls[Len(cb_calls)] = file_info.file_size

\* C6 (amended): in a full upload of N chunks without failures the callback
\* is invoked once per chunk answered with a continue response, N-1 times,
\* with the cumulative offsets i * UPLOAD_CHUNK_SIZE; the final chunk's
\* terminal response triggers no callback, so every value passed is smaller
\* than the file size.
C6_CallbackPerContinue ==
    CleanUploadDone
        => /\ Len(cb_calls) = NumChunks(file_info.file_size) - 1
           /\ \A i \in 1..Len(cb_calls) :
                 /\ cb_calls[i] = i * UPLOAD_CHUNK_SIZE
                 /\ cb_calls[i] < file_info.file_size

C6_Witness ==
    /\ CleanUploadDone
    /\ NumChunks(file_info.file_size) = MaxChunks
    /\ Len(cb_calls) = MaxChunks - 1
    /\ file_info.file_size = MaxChunks * UPLOAD_CHUNK_SIZE

\* C7: in every run the values passed to successive callback invocations are
\* non-decreasing, and no callback is invoked once the chunk loop has returned
\* its response or raised.
C7_ProgressMonotone ==
    [][/\ NonDecreasing(cb_calls')
       /\ (response.present \/ inner_exception.type # None \/ outcome # None)
             => cb_calls' = cb_calls]_vars

C7_Witness ==
    /\ pc = "done"
    /\ Len(cb_calls) >= 2
    /\ cb_calls[1] < cb_calls[2]
    /\ send_failures >= 1
    /\ cb_failures >= 1

\* C8: upload_video ends in a success record or in one of the four typed
\* failures, whatever the file and the metadata.
C8_OnlyTypedOutcomes ==
    pc = "done"
        => outcome \in {"success", "FileValidationError", "QuotaExceededError",
                        "NetworkError", "UploadError"}

\* C9: once the video upload has succeeded, upload_video returns success with
\* the identifier of the provider's response, however the thumbnail stage ends.
C9_ThumbnailFailureIsolated ==
    (pc = "done" /\ response.present)
        => /\ outcome = "success"
           /\ result.success
           /\ result.video_id = ResponseGetId(response)
           /\ response.id # None => result.video_id = response.id

C9_Witness ==
    /\ pc = "done"
    /\ outcome = "success"
    /\ metadata.thumbnail # None
    /\ thumbnail_sends = 1
    /\ thumbnail_exception = "UploadError"
    /\ result.video_id \in RemoteIds

\* C10: a file that fails one of the validator's checks makes upload_video
\* fail with FileValidationError with no request created, no chunk sent and
\* no call to the provider.
C10_InvalidFileNoNetwork ==
    ~FilePassesChecks(file)
        => /\ sessions = 0
           /\ network_calls = 0
           /\ attempts = 0
           /\ pc = "done" => outcome = "FileValidationError"

C10_Witness ==
    /\ pc = "done"
    /\ outcome = "FileValidationError"
    /\ file.exists /\ file.is_file
    /\ Lower(file.suffix) \in SUPPORTED_VIDEO_FORMATS
    /\ file.st_size <= MAX_FILE_SIZE
    /\ ~file.readable
    /\ network_calls = 0


\* ---------------------------------------------------------------------
\* validate_video_file on its own
\* ---------------------------------------------------------------------
\* no upload_video call is part of the run
UploadUnused ==
    /\ file = [exists |-> FALSE, is_file |-> FALSE, suffix |-> "", st_size |-> 0,
               readable |-> FALSE]
    /\ metadata = [recording_date |-> None, thumbnail |-> None]
    /\ progress_callback = FALSE
    /\ UploadIdle

ValidatorInit ==
    /\ vfile \in ValidatorFiles
    /\ vresult = NotValidated
    /\ UploadUnused
    /\ ManagerUnused
    /\ ConstructUnused
    /\ RoundTripUnused
    /\ BodyUnused
    /\ AppUnused

\* validate_video_file(file_path): raises FileValidationError or returns
ValidateCall ==
    /\ ~vresult.called
    /\ vresult' = [called |-> TRUE,
                   error |-> ValidateVideoFile(vfile),
                   info |-> IF ValidateVideoFile(vfile) = None
                            THEN FileInfo(vfile) ELSE NoFileInfo]
    /\ UNCHANGED <<vfile, uploadVars, authVars, extraVars>>

ValidatorNext == ValidateCall

ValidatorSpec == ValidatorInit /\ [][ValidatorNext]_vars

\* C11: validate reports the first failing check in the order exists,
\* regular file, supported extension (any letter case), size <=
\* MAX_FILE_SIZE, readable; a file passing all five, one of exactly
\* MAX_FILE_SIZE included, yields a descriptor with the on-disk size and the
\* lower-cased extension.
C11_ValidateOrder ==
    vresult.called =>
        /\ ~vfile.exists => vresult.error = "File not found"
        /\ (vfile.exists /\ ~vfile.is_file) => vresult.error = "Path is not a file"
        /\ (vfile.exists /\ vfile.is_file
              /\ vfile.suffix \notin {".mp4", ".MOV", ".Mp4"})
              => vresult.error = "Unsupported file format"
        /\ (vfile.exists /\ vfile.is_file
              /\ vfile.suffix \in {".mp4", ".MOV", ".Mp4"}
              /\ vfile.st_size > MAX_FILE_SIZE)
              => vresult.error = "File size exceeds limit"
        /\ (vfile.exists /\ vfile.is_file
              /\ vfile.suffix \in {".mp4", ".MOV", ".Mp4"}
              /\ vfile.st_size <= MAX_FILE_SIZE /\ ~vfile.readable)
              => vresult.error = "File is not readable"
        /\ (vfile.exists /\ vfile.is_file
              /\ vfile.suffix \in {".mp4", ".MOV", ".Mp4"}
              /\ vfile.st_size <= MAX_FILE_SIZE /\ vfile.readable)
              => /\ vresult.error = None
                 /\ vresult.info.valid
                 /\ vresult.info.file_size = vfile.st_size
                 /\ vresult.info.file_extension
                       = (IF vfile.suffix = ".MOV" THEN ".mov" ELSE ".mp4")

C11_Witness ==
    /\ vresult.called
    /\ vresult.error = None
    /\ vfile.suffix = ".MOV"
    /\ vfile.st_size = MAX_FILE_SIZE
    /\ vresult.info.file_size = MAX_FILE_SIZE
    /\ vresult.info.file_extension = ".mov"


\* ---------------------------------------------------------------------
\* Credential manager: operations
\* ---------------------------------------------------------------------
nonAuthVars == <<uploadVars, validateVars, extraVars>>

\* bookkeeping at the start of a call
NewCall(op) ==
    [op |-> op, via |-> "none",
     state0 |-> ManagerState(token_file, fernet, now),
     blob0 |-> token_file, mem0 |-> credentials, refreshes |-> 0, flows |-> 0]

\* does a read of the token file see the gap between open('wb') and write
ReadsPartial(tf) == tf.exists /\ tf.content.kind = "empty"

\* the call of thread t ends
Finish(t, r) ==
    /\ ret' = [ret EXCEPT ![t] = r]
    /\ apc' = [apc EXCEPT ![t] = "idle"]

\* an exception leaves _save_credentials or _refresh_credentials: what the
\* caller of the operation receives (lines 204-205, 244-246, 270-273)
Propagate(t, e) ==
    IF call[t].op = "get_credentials" THEN Returned(NoCredentials)
    ELSE IF call[t].via = "flow" THEN Raised("AuthenticationError")
    ELSE Raised(e)

\* authenticate(), lines 195-210: load, then return, refresh or start a flow
Authenticate(t) ==
    /\ t \in threads
    /\ apc[t] = "idle"
    /\ call' = [call EXCEPT ![t] = NewCall("authenticate")]
    /\ read_partial' = (read_partial \/ ReadsPartial(token_file))
    /\ LET c == LoadCredentials(token_file, fernet) IN
       IF Valid(c, now)
       THEN /\ credentials' = c
            /\ ret' = [ret EXCEPT ![t] = Returned(c)]
            /\ UNCHANGED <<apc, creds>>
       ELSE IF Refreshable(c, now)
       THEN /\ creds' = [creds EXCEPT ![t] = c]
            /\ apc' = [apc EXCEPT ![t] = "refresh"]
            /\ ret' = [ret EXCEPT ![t] = Running]
            /\ UNCHANGED credentials
       ELSE /\ apc' = [apc EXCEPT ![t] = "flow"]
            /\ ret' = [ret EXCEPT ![t] = Running]
            /\ UNCHANGED <<credentials, creds>>
    /\ UNCHANGED <<threads, now, issued, keyVars, token_file, listeners,
                   orphaned, refresh_failed>>
    /\ UNCHANGED nonAuthVars

\* get_credentials(), lines 255-273, up to the refresh call
GetCredentials(t) ==
    /\ t \in threads
    /\ apc[t] = "idle"
    /\ call' = [call EXCEPT ![t] = NewCall("get_credentials")]
    /\ IF Valid(credentials, now)
       THEN /\ ret' = [ret EXCEPT ![t] = Returned(credentials)]
            /\ UNCHANGED <<apc, creds, credentials, read_partial>>
       ELSE LET c == LoadCredentials(token_file, fernet) IN
            /\ read_partial' = (read_partial \/ ReadsPartial(token_file))
            /\ IF Valid(c, now)
               THEN /\ credentials' = c
                    /\ ret' = [ret EXCEPT ![t] = Returned(c)]
                    /\ UNCHANGED <<apc, creds>>
               ELSE IF Refreshable(c, now)
               THEN /\ creds' = [creds EXCEPT ![t] = c]
                    /\ apc' = [apc EXCEPT ![t] = "refresh"]
                    /\ ret' = [ret EXCEPT ![t] = Running]
                    /\ UNCHANGED credentials
               ELSE /\ ret' = [ret EXCEPT ![t] = Returned(NoCredentials)]
                    /\ UNCHANGED <<apc, creds, credentials>>
    /\ UNCHANGED <<threads, now, issued, keyVars, token_file, listeners,
                   orphaned, refresh_failed>>
    /\ UNCHANGED nonAuthVars

\* _refresh_credentials: credentials.refresh(Request()) succeeds
RefreshSucceeds(t) ==
    /\ t \in threads
    /\ apc[t] = "refresh"
    /\ issued < MaxIssued
    /\ \E d \in 1..MaxTTL :
          creds' = [creds EXCEPT ![t] = Refreshed(@, issued + 1, DateTime(now + d))]
    /\ issued' = issued + 1
    /\ call' = [call EXCEPT ![t].refreshes = @ + 1, ![t].via = "refresh"]
    /\ apc' = [apc EXCEPT ![t] = "save"]
    /\ UNCHANGED <<threads, now, keyVars, token_file, credentials, ret,
                   listeners, orphaned, refresh_failed, read_partial>>
    /\ UNCHANGED nonAuthVars

RefreshFailureRaises(op) == Raised("AuthenticationError")

\* what the caller gets when _refresh_credentials raises: authenticate lets
\* the AuthenticationError through (line 204), get_credentials swallows it
\* and returns None (lines 270-273)
RefreshFailure(op) ==
    IF op = "get_credentials"
    THEN Returned(NoCredentials) ELSE Raised("AuthenticationError")

\* _refresh_credentials: credentials.refresh raises, AuthenticationError
RefreshFails(t) ==
    /\ t \in threads
    /\ apc[t] = "refresh"
    /\ call' = [call EXCEPT ![t].refreshes = @ + 1, ![t].via = "refresh"]
    /\ refresh_failed' = TRUE
    /\ Finish(t, RefreshFailure(call[t].op))
    /\ UNCHANGED <<threads, now, issued, keyVars, token_file, credentials,
                   creds, listeners, orphaned, read_partial>>
    /\ UNCHANGED nonAuthVars

\* lines 210-231: the flow is created and run_local_server binds OAUTH_PORT;
\* whether a bind succeeds (also next to another listener, as SO_REUSEADDR
\* allows on some platforms) is decided by the operating system
FlowListen(t) ==
    /\ t \in threads
    /\ apc[t] = "flow"
    /\ call' = [call EXCEPT ![t].flows = @ + 1, ![t].via = "flow"]
    /\ \E bound \in BOOLEAN :
          IF bound
          THEN /\ listeners' = listeners \cup {t}
               /\ apc' = [apc EXCEPT ![t] = "listening"]
               /\ UNCHANGED ret
          ELSE /\ Finish(t, Raised("AuthenticationError"))
               /\ UNCHANGED listeners
    /\ UNCHANGED <<threads, now, issued, keyVars, token_file, credentials,
                   creds, orphaned, refresh_failed, read_partial>>
    /\ UNCHANGED nonAuthVars

\* run_local_server returns the granted credentials
FlowGranted(t) ==
    /\ t \in threads
    /\ apc[t] = "listening"
    /\ issued < MaxIssued
    /\ \E d \in 1..MaxTTL, rt \in {None, "rt"} :
          creds' = [creds EXCEPT ![t] =
                       [present |-> TRUE, token |-> issued + 1,
                        refresh_token |-> rt, token_uri |-> TOKEN_URI,
                        client_id |-> CLIENT_ID, client_secret |-> CLIENT_SECRET,
                        scopes |-> OAUTH_SCOPES, expiry |-> DateTime(now + d)]]
    /\ issued' = issued + 1
    /\ listeners' = listeners \ {t}
    /\ apc' = [apc EXCEPT ![t] = "save"]
    /\ UNCHANGED <<threads, now, keyVars, token_file, credentials, call, ret,
                   orphaned, refresh_failed, read_partial>>
    /\ UNCHANGED nonAuthVars

FlowFailsDropsBlob(t) ==
    /\ t \in threads
    /\ apc[t] = "listening"
    /\ listeners' = listeners \ {t}
    /\ token_file' = AbsentFile
    /\ Finish(t, Raised("AuthenticationError"))
    /\ UNCHANGED <<threads, now, issued, keyVars, credentials,
                   creds, call, orphaned, refresh_failed, read_partial>>
    /\ UNCHANGED nonAuthVars

\* run_local_server raises: the grant is denied, abandoned or fails
FlowFails(t) ==
    /\ t \in threads
    /\ apc[t] = "listening"
    /\ listeners' = listeners \ {t}
    /\ Finish(t, Raised("AuthenticationError"))
    /\ UNCHANGED <<threads, now, issued, keyVars, token_file, credentials,
                   creds, call, orphaned, refresh_failed, read_partial>>
    /\ UNCHANGED nonAuthVars

\* _save_credentials, line 121: open(OAUTH_TOKEN_FILE, 'wb') truncates the
\* file, or creates it with the permissions the umask leaves
SaveOpen(t) ==
    /\ t \in threads
    /\ apc[t] = "save"
    /\ token_file' = [exists |-> TRUE, content |-> EmptyBlob,
                      mode |-> IF token_file.exists THEN token_file.mode ELSE "umask"]
    /\ apc' = [apc EXCEPT ![t] = "save_write"]
    /\ UNCHANGED <<threads, now, issued, keyVars, credentials, creds, call,
                   ret, listeners, orphaned, refresh_failed, read_partial>>
    /\ UNCHANGED nonAuthVars

\* _save_credentials, line 122: the encrypted record is written and the file
\* closed; the bytes are lost when the file was unlinked in between
SaveWrite(t) ==
    /\ t \in threads
    /\ apc[t] = "save_write"
    /\ IF t \in orphaned
       THEN UNCHANGED token_file
       ELSE token_file' = [token_file EXCEPT
                              !.content = Encrypt(fernet, TokenData(creds[t]))]
    /\ orphaned' = orphaned \ {t}
    /\ apc' = [apc EXCEPT ![t] = "save_chmod"]
    /\ UNCHANGED <<threads, now, issued, keyVars, credentials, creds, call,
                   ret, listeners, refresh_failed, read_partial>>
    /\ UNCHANGED nonAuthVars

\* _save_credentials, line 125, then `self.credentials = credentials` and
\* the return of the operation; os.chmod raises when the file is gone
SaveChmod(t) ==
    /\ t \in threads
    /\ apc[t] = "save_chmod"
    /\ IF token_file.exists
       THEN /\ token_file' = [token_file EXCEPT !.mode = "0600"]
            /\ credentials' = creds[t]
            /\ refresh_failed' = FALSE
            /\ Finish(t, Returned(creds[t]))
       ELSE /\ Finish(t, Propagate(t, "FileNotFoundError"))
            /\ UNCHANGED <<token_file, credentials, refresh_failed>>
    /\ UNCHANGED <<threads, now, issued, keyVars, creds, call, listeners,
                   orphaned, read_partial>>
    /\ UNCHANGED nonAuthVars

\* clear_credentials(), line 289: the exists() test
ClearCredentials(t) ==
    /\ t \in threads
    /\ apc[t] = "idle"
    /\ call' = [call EXCEPT ![t] = NewCall("clear_credentials")]
    /\ IF token_file.exists
       THEN /\ apc' = [apc EXCEPT ![t] = "unlink"]
            /\ ret' = [ret EXCEPT ![t] = Running]
            /\ UNCHANGED <<credentials, refresh_failed>>
       ELSE /\ credentials' = ClearedMemory(credentials)
            /\ refresh_failed' = FALSE
            /\ ret' = [ret EXCEPT ![t] = Returned(NoCredentials)]
            /\ UNCHANGED apc
    /\ UNCHANGED <<threads, now, issued, keyVars, token_file, creds,
                   listeners, orphaned, read_partial>>
    /\ UNCHANGED nonAuthVars

\* clear_credentials(), lines 290-293: unlink() and self.credentials = None
ClearUnlink(t) ==
    /\ t \in threads
    /\ apc[t] = "unlink"
    /\ IF token_file.exists
       THEN /\ token_file' = AbsentFile
            /\ orphaned' = orphaned \cup {u \in threads : apc[u] = "save_write"}
            /\ credentials' = ClearedMemory(credentials)
            /\ refresh_failed' = FALSE
            /\ Finish(t, Returned(NoCredentials))
       ELSE /\ Finish(t, Raised("FileNotFoundError"))
            /\ UNCHANGED <<token_file, orphaned, credentials, refresh_failed>>
    /\ UNCHANGED <<threads, now, issued, keyVars, creds, call, listeners,
                   read_partial>>
    /\ UNCHANGED nonAuthVars

\* time passes
Tick ==
    /\ threads # {}
    /\ now < MaxTime
    /\ now' = now + 1
    /\ UNCHANGED <<threads, issued, keyVars, token_file, credentials, apc,
                   creds, call, ret, listeners, orphaned, refresh_failed,
                   read_partial>>
    /\ UNCHANGED nonAuthVars

AuthNext ==
    \/ \E t \in AllThreads : Authenticate(t)
    \/ \E t \in AllThreads : GetCredentials(t)
    \/ \E t \in AllThreads : RefreshSucceeds(t)
    \/ \E t \in AllThreads : RefreshFails(t)
    \/ \E t \in AllThreads : FlowListen(t)
    \/ \E t \in AllThreads : FlowGranted(t)
    \/ \E t \in AllThreads : FlowFails(t)
    \/ \E t \in AllThreads : SaveOpen(t)
    \/ \E t \in AllThreads : SaveWrite(t)
    \/ \E t \in AllThreads : SaveChmod(t)
    \/ \E t \in AllThreads : ClearCredentials(t)
    \/ \E t \in AllThreads : ClearUnlink(t)
    \/ Tick

\* one caller: the operations of the manager run one after another
AuthInit ==
    /\ threads = {"t1"}
    /\ token_file \in StoredTokenFiles
    /\ ManagerIdle
    /\ UploadUnused
    /\ ValidatorUnused
    /\ ConstructUnused
    /\ RoundTripUnused
    /\ BodyUnused
    /\ AppUnused

AuthSpec == AuthInit /\ [][AuthNext]_vars

\* the token files the concurrent runs start from: no record, and an
\* expired record with a refresh token
RacedTokenFiles ==
    {AbsentFile,
     [exists |-> TRUE, mode |-> "0600",
      content |-> Encrypt(ManagerKey,
                          TokenData([present |-> TRUE, token |-> 0,
                                     refresh_token |-> "rt0",
                                     token_uri |-> TOKEN_URI,
                                     client_id |-> CLIENT_ID,
                                     client_secret |-> CLIENT_SECRET,
                                     scopes |-> OAUTH_SCOPES,
                                     expiry |-> DateTime(0)]))]}

\* every thread of AllThreads calls into the same manager
ConcAuthInit ==
    /\ threads = AllThreads
    /\ token_file \in RacedTokenFiles
    /\ ManagerIdle
    /\ UploadUnused
    /\ ValidatorUnused
    /\ ConstructUnused
    /\ RoundTripUnused
    /\ BodyUnused
    /\ AppUnused

ConcAuthSpec == ConcAuthInit /\ [][AuthNext]_vars

AuthTypeOK ==
    /\ now \in 0..MaxTime
    /\ issued \in 0..MaxIssued
    /\ \A t \in AllThreads :
          apc[t] \in {"idle", "refresh", "flow", "listening", "save",
                      "save_write", "save_chmod", "unlink"}


\* ---------------------------------------------------------------------
\* Properties of the credential manager
\* ---------------------------------------------------------------------
\* thread t has completed a call of operation op and made no call since
Done(t, op) ==
    /\ apc[t] = "idle"
    /\ call[t].op = op
    /\ ret[t].kind \in {"returned", "raised"}

\* the record a retrieve() from the store yields now
Retrieved == LoadCredentials(token_file, fernet)

\* C12: authenticate on a persisted record whose access token has not expired
\* returns that record, calls neither refresh nor the interactive flow, and
\* leaves the persisted blob as it was.
C12_ValidReturnsUnchanged ==
    (Done("t1", "authenticate") /\ call["t1"].state0 = "Valid")
        => /\ ret["t1"].kind = "returned"
           /\ ret["t1"].value.present
           /\ ret["t1"].value.token = call["t1"].blob0.content.data.token
           /\ ret["t1"].value.refresh_token = call["t1"].blob0.content.data.refresh_token
           /\ ret["t1"].value.expiry.t = call["t1"].blob0.content.data.expiry.t
           /\ call["t1"].refreshes = 0
           /\ call["t1"].flows = 0
           /\ token_file = call["t1"].blob0

C12_Witness ==
    /\ Done("t1", "authenticate")
    /\ call["t1"].state0 = "Valid"
    /\ call["t1"].blob0.content.data.expiry.kind = "isostr"
    /\ call["t1"].blob0.content.data.refresh_token # None
    /\ ret["t1"].kind = "returned"
    /\ token_file = call["t1"].blob0

\* C13: authenticate on an expired record with a refresh token makes exactly
\* one refresh call and starts no interactive flow; when the refresh
\* succeeds the updated record is persisted, and a retrieve() that follows
\* returns the refreshed token and expiry, not the stale ones.
C13_RefreshPersisted ==
    (Done("t1", "authenticate") /\ call["t1"].state0 = "ExpiredRefreshable")
        => /\ call["t1"].refreshes = 1
           /\ call["t1"].flows = 0
           /\ ret["t1"].kind = "returned"
                => /\ Retrieved = ret["t1"].value
                   /\ Retrieved.token # call["t1"].blob0.content.data.token
                   /\ Retrieved.expiry.kind = "datetime"
                   /\ Retrieved.expiry.t # call["t1"].blob0.content.data.expiry.t
                   /\ credentials = ret["t1"].value

C13_Witness ==
    /\ Done("t1", "authenticate")
    /\ call["t1"].state0 = "ExpiredRefreshable"
    /\ ret["t1"].kind = "returned"
    /\ call["t1"].refreshes = 1
    /\ Retrieved.token = 1
    /\ Retrieved.expiry.t > call["t1"].blob0.content.data.expiry.t

\* C14: a failed refresh makes authenticate signal AuthenticationFailed and
\* leaves the manager Expired-Terminal: the next authenticate starts the
\* interactive flow and does not attempt another refresh.
C14_FailedRefreshIsTerminal ==
    /\ (Done("t1", "authenticate") /\ call["t1"].via = "refresh"
          /\ ret["t1"].kind = "raised")
          => ret["t1"].exc = "AuthenticationError"
    /\ (refresh_failed /\ call["t1"].op = "authenticate") => apc["t1"] # "refresh"

\* C15: a call that finds a persisted blob it cannot decrypt ends with a
\* CorruptCredentialStore failure, which the absent file never produces.
C15_CorruptStoreSignalled ==
    \A t \in threads :
        (call[t].op \in {"authenticate", "get_credentials"}
            /\ call[t].state0 = "Corrupt")
            => ret[t] = Raised("CorruptCredentialStore")

InFlow == {t \in threads : apc[t] \in {"flow", "listening"}}

\* C17: at most one interactive authorization flow is in progress on the
\* manager, and at most one callback listener is open on the port.
C17_OneFlowAtATime ==
    /\ Cardinality(InFlow) <= 1
    /\ Cardinality(listeners) <= 1

\* C18: no load of the token file that runs concurrently with a save reads
\* a half-written blob.
C18_NoPartialRead == ~read_partial

\* threads in the middle of an authenticate or get_credentials call that
\* found an expired record with a refresh token
Refreshing ==
    {t \in threads :
        /\ apc[t] # "idle"
        /\ call[t].op \in {"authenticate", "get_credentials"}
        /\ call[t].state0 = "ExpiredRefreshable"}

\* C19: against an Expired-Refreshable record, no two refresh-or-authenticate
\* operations of the manager are in progress at the same time.
C19_TransitionsSerialized == Cardinality(Refreshing) <= 1

\* C20: clear_credentials succeeds from every prior state, removes the blob,
\* clears self.credentials and leaves the manager Unauthenticated; when there
\* was no blob and no in-memory record it changes nothing.
C20_LogoutIdempotent ==
    Done("t1", "clear_credentials")
        => /\ ret["t1"] = Returned(NoCredentials)
           /\ ~token_file.exists
           /\ ~credentials.present
           /\ ManagerState(token_file, fernet, now) = "Unauthenticated"
           /\ ~call["t1"].blob0.exists => token_file = call["t1"].blob0
           /\ ~call["t1"].mem0.present => credentials = call["t1"].mem0

C20_Witness ==
    /\ Done("t1", "clear_credentials")
    /\ call["t1"].blob0.exists
    /\ call["t1"].mem0.present
    /\ call["t1"].state0 = "Valid"
    /\ ~token_file.exists
    /\ ~credentials.present

C20_WitnessAgain ==
    /\ Done("t1", "clear_credentials")
    /\ ~call["t1"].blob0.exists
    /\ ~call["t1"].mem0.present
    /\ issued > 0


\* ---------------------------------------------------------------------
\* persist followed by retrieve
\* ---------------------------------------------------------------------
\* the variables of the manager besides the token file
callVars ==
    <<threads, now, issued, credentials, apc, creds, call, ret, listeners,
      orphaned, refresh_failed, read_partial>>

RoundTripInit ==
    /\ record \in RoundTripRecords
    /\ retrieved = NoCredentials
    /\ threads = {}
    /\ token_file = AbsentFile
    /\ ManagerIdle
    /\ ConstructUnused
    /\ BodyUnused
    /\ AppUnused
    /\ UploadUnused
    /\ ValidatorUnused

\* _save_credentials(record), lines 109-125
Persist ==
    /\ ~token_file.exists
    /\ token_file' = [exists |-> TRUE,
                      content |-> Encrypt(fernet, TokenData(record)),
                      mode |-> "0600"]
    /\ UNCHANGED <<record, retrieved, callVars, keyVars, constructVars, bodyVars>>
    /\ UNCHANGED <<uploadVars, validateVars, appVars>>

\* _load_credentials(), lines 136-163
Retrieve ==
    /\ token_file.exists
    /\ ~retrieved.present
    /\ retrieved' = LoadCredentials(token_file, fernet)
    /\ UNCHANGED <<record, token_file, callVars, keyVars, constructVars, bodyVars>>
    /\ UNCHANGED <<uploadVars, validateVars, appVars>>

RoundTripNext == Persist \/ Retrieve

RoundTripSpec == RoundTripInit /\ [][RoundTripNext]_vars

NoConstructionRunning == \A n \in Managers : kpc[n].at \in {"new", "ready"}

KeyFileExistsNever(kf) == FALSE

\* `if key_file.exists()`, line 64
KeyFileExists(kf) == kf.exists

KeyInit ==
    /\ key_file \in {AbsentKeyFile} \cup StoredKeyFiles
    /\ ConstructUnused
    /\ threads = {}
    /\ token_file = AbsentFile
    /\ CallsIdle
    /\ RoundTripUnused
    /\ BodyUnused
    /\ AppUnused
    /\ UploadUnused
    /\ ValidatorUnused

\* everything a construction leaves alone
nonConstructVars ==
    <<fernet, token_file, callVars, roundTripVars, bodyVars, uploadVars,
      validateVars, appVars>>

\* lines 62-65: the key file exists and is opened for reading
ConstructFound(m) ==
    /\ kpc[m].at = "new"
    /\ NoConstructionRunning
    /\ KeyFileExists(key_file)
    /\ kpc' = [kpc EXCEPT ![m].at = "read"]
    /\ UNCHANGED <<key_file, fernets, generated, nonConstructVars>>

\* lines 66 and 74: the key is read and wrapped
ConstructRead(m) ==
    /\ kpc[m].at = "read"
    /\ kpc' = [kpc EXCEPT ![m] = [at |-> "ready", key |-> key_file.key]]
    /\ fernets' = [fernets EXCEPT ![m] = key_file.key]
    /\ UNCHANGED <<key_file, generated, nonConstructVars>>

\* lines 67-69: no key file; a key is generated and the file opened with
\* mode 'wb', which creates it empty with the permissions the umask leaves
ConstructGenerate(m) ==
    /\ kpc[m].at = "new"
    /\ NoConstructionRunning
    /\ ~KeyFileExists(key_file)
    /\ generated' = generated + 1
    /\ kpc' = [kpc EXCEPT ![m] = [at |-> "write", key |-> GenerateKey(generated + 1)]]
    /\ key_file' = [exists |-> TRUE, key |-> NoKey,
                    mode |-> IF key_file.exists THEN key_file.mode ELSE "umask"]
    /\ UNCHANGED <<fernets, nonConstructVars>>

\* line 70: f.write(key)
ConstructWrite(m) ==
    /\ kpc[m].at = "write"
    /\ key_file' = [key_file EXCEPT !.key = kpc[m].key]
    /\ kpc' = [kpc EXCEPT ![m].at = "chmod"]
    /\ UNCHANGED <<fernets, generated, nonConstructVars>>

\* lines 72-74: os.chmod(key_file, 0o600); return Fernet(key)
ConstructChmod(m) ==
    /\ kpc[m].at = "chmod"
    /\ key_file' = [key_file EXCEPT !.mode = "0600"]
    /\ kpc' = [kpc EXCEPT ![m].at = "ready"]
    /\ fernets' = [fernets EXCEPT ![m] = kpc[m].key]
    /\ UNCHANGED <<generated, nonConstructVars>>

KeyNext ==
    \/ \E m \in Managers : ConstructFound(m)
    \/ \E m \in Managers : ConstructRead(m)
    \/ \E m \in Managers : ConstructGenerate(m)
    \/ \E m \in Managers : ConstructWrite(m)
    \/ \E m \in Managers : ConstructChmod(m)

KeySpec == KeyInit /\ [][KeyNext]_vars

C23_OwnerOnlyPermissions ==
    /\ (token_file.exists /\ token_file.content.kind # "empty")
          => token_file.mode = "0600"
    /\ (key_file.exists /\ key_file.key # NoKey) => key_file.mode = "0600"


\* ---------------------------------------------------------------------
\* upload_video: the request body and the echoed title
\* ---------------------------------------------------------------------
\* dict.get(key, default) on a value read from the metadata dict
DictGet(v, default) == IF v = Missing THEN default ELSE v

\* language_map of _get_language_code
LanguageNames ==
    {"English", "Thai", "Spanish", "French", "German", "Japanese", "Korean",
     "Chinese", "Other"}

\* _get_language_code: language_map.get(language_name, 'en')
GetLanguageCode(name) ==
    CASE name = "English" -> "en"
      [] name = "Thai" -> "th"
      [] name = "Spanish" -> "es"
      [] name = "French" -> "fr"
      [] name = "German" -> "de"
      [] name = "Japanese" -> "ja"
      [] name = "Korean" -> "ko"
      [] name = "Chinese" -> "zh"
      [] name = "Other" -> "en"
      [] OTHER -> "en"

\* the category ids of config.VIDEO_CATEGORIES
VIDEO_CATEGORIES ==
    {"1", "2", "10", "15", "17", "18", "19", "20", "21", "22", "23", "24",
     "25", "26", "27", "28", "29", "30", "31", "32", "33", "34", "35", "36",
     "37", "38", "39", "40", "41", "42", "43", "44"}

\* lines 166-178: the body built from the metadata
BodyOf(md) ==
    [built |-> TRUE,
     title |-> DictGet(md.title, "Untitled"),
     categoryId |-> DictGet(md.category, "22"),
     defaultAudioLanguage |-> GetLanguageCode(DictGet(md.video_language, "English")),
     privacyStatus |-> DictGet(md.privacy_status, "private")]

\* line 244: 'title' of the record returned on success
EchoedTitle(md) == DictGet(md.title, "Untitled")

BodyInit ==
    /\ full_metadata \in FullMetadatas
    /\ body = NoBody
    /\ result_title = None
    /\ ConstructUnused
    /\ RoundTripUnused
    /\ ManagerUnused
    /\ UploadUnused
    /\ ValidatorUnused
    /\ AppUnused

\* lines 166-178
BuildBody ==
    /\ ~body.built
    /\ body' = BodyOf(full_metadata)
    /\ UNCHANGED <<full_metadata, result_title, constructVars, roundTripVars>>
    /\ UNCHANGED <<authVars, uploadVars, validateVars, appVars>>

\* lines 240-246: the upload succeeded and the record is returned
ReturnRecord ==
    /\ body.built
    /\ result_title = None
    /\ result_title' = EchoedTitle(full_metadata)
    /\ UNCHANGED <<full_metadata, body, constructVars, roundTripVars>>
    /\ UNCHANGED <<authVars, uploadVars, validateVars, appVars>>

BodyNext == BuildBody \/ ReturnRecord

BodySpec == BodyInit /\ [][BodyNext]_vars

\* str.strip() on the titles the model uses
Strip(s) == IF s = "   " THEN "" ELSE s

\* C24: a title that is missing, empty or blank after trimming is replaced
\* by 'Untitled' in the request body and in the echoed title.
C24_BlankTitleDefaults ==
    (body.built /\ (full_metadata.title = Missing \/ Strip(full_metadata.title) = ""))
        => /\ body.title = "Untitled"
           /\ result_title # None => result_title = "Untitled"

\* C25: a language name outside the table (missing and None included) maps
\* to 'en', a missing or unknown category to '22', a missing visibility to
\* 'private'.
C25_UnknownValuesFallBack ==
    body.built
        => /\ full_metadata.video_language \notin LanguageNames
                => body.defaultAudioLanguage = "en"
           /\ full_metadata.category \notin VIDEO_CATEGORIES
                => body.categoryId = "22"
           /\ full_metadata.privacy_status = Missing
                => body.privacyStatus = "private"


\* ---------------------------------------------------------------------
\* Further properties of the upload engine
\* ---------------------------------------------------------------------
\* C26: within one upload the bytes acknowledged never decrease; a failed
\* send leaves them as they are, the next send is made on the same request
\* at the chunk that failed, and no second request is created.
C26_ResumeInSameSession ==
    [][ /\ resumable_progress' >= resumable_progress
        /\ sessions' <= 1
        /\ send_failures' > send_failures
              => /\ resumable_progress' = resumable_progress
                 /\ sessions' = sessions
        /\ pc = "sleep" => resumable_progress' = resumable_progress
        /\ attempts' > attempts
              => /\ sessions' = 1
                 /\ chunk_attempts'[ChunkAt(resumable_progress)]
                        = chunk_attempts[ChunkAt(resumable_progress)] + 1 ]_vars

C26_Witness ==
    /\ pc = "done"
    /\ outcome = "success"
    /\ sessions = 1
    /\ file_info.file_size > 2 * UPLOAD_CHUNK_SIZE
    /\ resumable_progress = file_info.file_size
    /\ chunk_attempts[1] = 1
    /\ chunk_fails[2] = 2
    /\ chunk_attempts[2] = 3
    /\ chunk_attempts[3] = 1


\* the wait before the n-th resend, in delay units: d = 1.0 * 1.5^(n-1) s,
\* capped at RETRY_MAX_DELAY
IsNthWait(d, n) ==
    \/ /\ d * Pow(BACKOFF_DEN, n - 1) = RETRY_INITIAL_DELAY * Pow(BACKOFF_NUM, n - 1)
       /\ d <= RETRY_MAX_DELAY
    \/ /\ d = RETRY_MAX_DELAY
       /\ d * Pow(BACKOFF_DEN, n - 1) < RETRY_INITIAL_DELAY * Pow(BACKOFF_NUM, n - 1)

\* C27: the wait before the n-th resend, 1 <= n < MAX_RETRY_ATTEMPTS, is
\* min(RETRY_INITIAL_DELAY * RETRY_BACKOFF_MULTIPLIER^(n-1), RETRY_MAX_DELAY),
\* and the failure that exhausts the budget raises without a wait.
C27_BackoffSchedule ==
    /\ Len(delays) <= MAX_RETRY_ATTEMPTS - 1
    /\ \A n \in 1..Len(delays) : IsNthWait(delays[n], n)
    /\ pc = "sleep"
          => /\ retry_count < MAX_RETRY_ATTEMPTS
             /\ IsNthWait(delay, retry_count)
             /\ Len(delays) = retry_count - 1
    /\ pc = "send" => Len(delays) = retry_count
    /\ inner_exception.type = "NetworkError"
          => /\ retry_count = MAX_RETRY_ATTEMPTS
             /\ Len(delays) = MAX_RETRY_ATTEMPTS - 1

C27_Witness ==
    /\ inner_exception.type = "NetworkError"
    /\ retry_count = MAX_RETRY_ATTEMPTS
    /\ delays = <<RETRY_INITIAL_DELAY, (3 * RETRY_INITIAL_DELAY) \div 2,
                  (9 * RETRY_INITIAL_DELAY) \div 4, (27 * RETRY_INITIAL_DELAY) \div 8>>

\* _upload_thumbnail has been called
ThumbnailAttempted == thumb_file # NoThumbFile

\* C28: the thumbnail is attempted only after the video upload succeeded and
\* only when metadata names a thumbnail, never after a failed upload; it is
\* sent to the provider only when the file exists, has one of the four image
\* extensions and is at most 2 MB.
C28_ThumbnailOnlyAfterSuccess ==
    /\ (pc = "thumbnail" \/ ThumbnailAttempted)
          => /\ metadata.thumbnail # None
             /\ response.present
             /\ inner_exception.type = None
             /\ resumable_progress = file_info.file_size
    /\ ThumbnailAttempted => (pc = "done" /\ outcome = "success")
    /\ (pc = "done" /\ outcome # "success")
          => (~ThumbnailAttempted /\ thumbnail_sends = 0)
    /\ (pc = "done" /\ outcome = "success" /\ metadata.thumbnail # None)
          => ThumbnailAttempted
    /\ thumbnail_sends <= 1
    /\ thumbnail_sends = 1
          => /\ ThumbnailAttempted
             /\ thumb_file.exists
             /\ Lower(thumb_file.suffix) \in {".jpg", ".jpeg", ".png", ".webp"}
             /\ thumb_file.st_size <= 2

C28_Witness ==
    /\ pc = "done"
    /\ outcome = "success"
    /\ thumbnail_sends = 1
    /\ thumb_file.suffix = ".PNG"
    /\ thumb_file.st_size = THUMBNAIL_MAX_SIZE
    /\ send_failures >= 1

\* C30: an exception of the progress callback is counted as a retry like a
\* failed send: the counter goes up by one and either the backoff wait
\* follows or, with the budget used up, NetworkError is raised; the caller
\* never receives the callback's exception, and the acknowledged chunk is
\* not sent again.
C30_CallbackFailureIsRetry ==
    [][ /\ cb_failures' > cb_failures
              => /\ retry_count' = retry_count + 1
                 /\ last_exception' = CallbackError
                 /\ resumable_progress' = resumable_progress
                 /\ attempts' = attempts
                 /\ IF retry_count + 1 >= MAX_RETRY_ATTEMPTS
                    THEN /\ pc' = "done"
                         /\ inner_exception'.type = "NetworkError"
                         /\ outcome' \in {"NetworkError", "UploadError"}
                         /\ delays' = delays
                    ELSE /\ pc' = "sleep"
                         /\ IsNthWait(delay', retry_count + 1)
                         /\ outcome' = None
        /\ outcome' \notin {"CallbackError", "Exception"}
        /\ \A c \in 1..MaxChunks : chunk_attempts'[c] - chunk_fails'[c] <= 1 ]_vars

C30_Witness ==
    /\ pc = "done"
    /\ outcome = "success"
    /\ cb_failures = 2
    /\ send_failures = 0
    /\ attempts = NumChunks(file_info.file_size)
    /\ delays = <<RETRY_INITIAL_DELAY, (3 * RETRY_INITIAL_DELAY) \div 2>>

C30_WitnessExhausted ==
    /\ pc = "done"
    /\ last_exception = CallbackError
    /\ inner_exception = [type |-> "NetworkError", attempts |-> MAX_RETRY_ATTEMPTS]
    /\ cb_failures >= 1


\* ---------------------------------------------------------------------
\* upload of a file with MAX_RETRY_ATTEMPTS chunks
\* ---------------------------------------------------------------------
LongUploadInit ==
    /\ file \in LongFiles
    /\ metadata \in Metadatas
    /\ progress_callback \in BOOLEAN
    /\ UploadIdle
    /\ ValidatorUnused
    /\ ManagerUnused
    /\ ConstructUnused
    /\ RoundTripUnused
    /\ BodyUnused
    /\ AppUnused

LongUploadSpec == LongUploadInit /\ [][Next]_vars

\* C29: the retry counter counts every failure of the upload and is never
\* reset by an acknowledged chunk: at most MAX_RETRY_ATTEMPTS sends fail in
\* a run, and the upload aborts as soon as the failures, on whatever chunks,
\* sum to MAX_RETRY_ATTEMPTS.
C29_RetryCounterCumulative ==
    /\ retry_count = send_failures + cb_failures
    /\ send_failures <= MAX_RETRY_ATTEMPTS
    /\ retry_count = MAX_RETRY_ATTEMPTS
          => /\ pc = "done"
             /\ inner_exception.type = "NetworkError"
             /\ outcome \notin {None, "success"}
             /\ ~response.present
    /\ inner_exception.type = "NetworkError" => retry_count = MAX_RETRY_ATTEMPTS

C29_Witness ==
    /\ pc = "done"
    /\ inner_exception.type = "NetworkError"
    /\ cb_failures = 0
    /\ send_failures = MAX_RETRY_ATTEMPTS
    /\ \A c \in 1..MAX_RETRY_ATTEMPTS : chunk_fails[c] = 1
    /\ resumable_progress = (MAX_RETRY_ATTEMPTS - 1) * UPLOAD_CHUNK_SIZE


\* ---------------------------------------------------------------------
\* Termination of upload_video
\* ---------------------------------------------------------------------
\* every next_chunk() call returns or raises, every callback returns or
\* raises, every time.sleep returns: a step that can be taken is taken
FairSpec == LongUploadSpec /\ WF_vars(Next)

\* what is left of the retry budget, and of the file
BudgetLeft == MAX_RETRY_ATTEMPTS - retry_count

BytesLeft == file_info.file_size - resumable_progress

\* C31: every upload_video call ends with a result or a failure; each
\* iteration of the chunk loop either advances the acknowledged offset or
\* uses up one unit of the retry budget, and neither is ever given back.
C31_UploadTerminates ==
    /\ <>(pc = "done" /\ outcome # None)
    /\ [][ /\ BudgetLeft' <= BudgetLeft
           /\ BudgetLeft' >= 0
           /\ pc = "send"
                 => \/ BytesLeft' < BytesLeft /\ BytesLeft' >= 0
                    \/ BudgetLeft' < BudgetLeft
           /\ (pc = "callback" /\ pc' \in {"sleep", "done"} /\ ~response.present)
                 => BudgetLeft' < BudgetLeft ]_vars

C31_Witness ==
    /\ pc = "done"
    /\ outcome = "success"
    /\ retry_count = MAX_RETRY_ATTEMPTS - 1
    /\ resumable_progress = MAX_RETRY_ATTEMPTS * UPLOAD_CHUNK_SIZE
    /\ cb_failures >= 1
    /\ send_failures >= 1


\* ---------------------------------------------------------------------
\* Further properties of the credential manager
\* ---------------------------------------------------------------------
\* is_authenticated(), lines 282-283, from what get_credentials returned
IsAuthenticated(r, t) == r.kind = "returned" /\ r.value.present /\ Valid(r.value, t)

\* C32: get_credentials (and is_authenticated, which wraps it) never starts
\* the interactive flow and never raises; it returns credentials only when
\* they are valid, or were refreshed once and persisted, and None (False)
\* otherwise, also when the refresh fails or the blob cannot be decrypted.
C32_GetCredentialsIsQuiet ==
    [][ \A t \in threads :
          call'[t].op = "get_credentials"
              => /\ apc'[t] \notin {"flow", "listening"}
                 /\ call'[t].flows = 0
                 /\ call'[t].refreshes <= 1
                 /\ ret'[t].kind # "raised"
                 /\ (apc'[t] = "idle" /\ (apc[t] # "idle" \/ call'[t] # call[t]))
                       => IF ret'[t].value.present
                          THEN \/ /\ call'[t].refreshes = 0
                                  /\ Valid(ret'[t].value, now')
                                  /\ IsAuthenticated(ret'[t], now')
                               \/ /\ call'[t].refreshes = 1
                                  /\ call'[t].state0 = "ExpiredRefreshable"
                                  /\ LoadCredentials(token_file', fernet') = ret'[t].value
                                  /\ credentials' = ret'[t].value
                          ELSE /\ ~IsAuthenticated(ret'[t], now')
                               /\ ~Valid(credentials', now')
                               /\ ~Valid(LoadCredentials(token_file', fernet'), now')
                               /\ token_file' = call'[t].blob0 ]_vars

C32_Witness ==
    /\ Done("t1", "get_credentials")
    /\ call["t1"].state0 = "ExpiredRefreshable"
    /\ call["t1"].refreshes = 1
    /\ ret["t1"] = Returned(NoCredentials)
    /\ refresh_failed

C32_WitnessCorrupt ==
    /\ Done("t1", "get_credentials")
    /\ call["t1"].state0 = "Corrupt"
    /\ ret["t1"] = Returned(NoCredentials)

C32_WitnessRefreshed ==
    /\ Done("t1", "get_credentials")
    /\ call["t1"].refreshes = 1
    /\ ret["t1"].value.present

\* C33: an authenticate call that ends in AuthenticationError because the
\* refresh or the interactive grant failed leaves the token file and
\* self.credentials as they were when the call started.
C33_FailedAuthenticateChangesNothing ==
    (Done("t1", "authenticate") /\ ret["t1"] = Raised("AuthenticationError"))
        => /\ token_file = call["t1"].blob0
           /\ credentials = call["t1"].mem0

C33_Witness ==
    /\ Done("t1", "authenticate")
    /\ ret["t1"] = Raised("AuthenticationError")
    /\ call["t1"].via = "flow"
    /\ call["t1"].blob0.exists
    /\ call["t1"].mem0.present
    /\ token_file = call["t1"].blob0

C33_WitnessRefresh ==
    /\ Done("t1", "authenticate")
    /\ ret["t1"] = Raised("AuthenticationError")
    /\ call["t1"].via = "refresh"
    /\ call["t1"].mem0.present

\* C34: between the calls of a single caller, in-memory credentials imply a
\* token file that decrypts to the same token; and from the state
\* clear_credentials leaves, get_credentials returns None and only
\* authenticate brings a token file back.
C34_MemoryMatchesStore ==
    /\ [](/\ (apc["t1"] = "idle" /\ credentials.present)
               => /\ token_file.exists
                  /\ CanDecrypt(fernet, token_file.content)
                  /\ Retrieved.token = credentials.token
          /\ Done("t1", "clear_credentials")
               => ~token_file.exists /\ ~credentials.present
          /\ (Done("t1", "get_credentials") /\ ~call["t1"].blob0.exists)
               => /\ ret["t1"] = Returned(NoCredentials)
                  /\ ~token_file.exists
                  /\ ~credentials.present)
    /\ [][ (~token_file.exists /\ token_file'.exists)
              => call'["t1"].op = "authenticate" /\ call'["t1"].flows = 1 ]_vars

C34_Witness ==
    /\ Done("t1", "get_credentials")
    /\ ~call["t1"].blob0.exists
    /\ ret["t1"] = Returned(NoCredentials)
    /\ issued > 0

C34_WitnessMemory ==
    /\ apc["t1"] = "idle"
    /\ credentials.present
    /\ credentials.token = MaxIssued
    /\ Retrieved.token = MaxIssued

\* C35: authenticate treats a token file it cannot decrypt like a missing
\* one: no refresh, the interactive flow, and on a grant the file is
\* overwritten with the new record, which then loads.
C35_CorruptBlobIsAbsent ==
    (call["t1"].op = "authenticate" /\ call["t1"].state0 = "Corrupt")
        => /\ apc["t1"] # "refresh"
           /\ call["t1"].refreshes = 0
           /\ Done("t1", "authenticate")
                => /\ call["t1"].flows = 1
                   /\ ret["t1"].kind = "returned"
                        => /\ ret["t1"].value.present
                           /\ CanDecrypt(fernet, token_file.content)
                           /\ Retrieved = ret["t1"].value
                           /\ token_file # call["t1"].blob0

C35_Witness ==
    /\ Done("t1", "authenticate")
    /\ call["t1"].state0 = "Corrupt"
    /\ call["t1"].blob0.content.kind = "fernet"
    /\ call["t1"].blob0.content.key = RotatedKey
    /\ ret["t1"].kind = "returned"
    /\ Retrieved.token = 1


\* ---------------------------------------------------------------------
\* The application's session state (app.py)
\* ---------------------------------------------------------------------
MaxClicks == 2

\* the except clauses of handle_upload, lines 640-664
UploadErrorKinds ==
    {"FileValidationError", "QuotaExceededError", "NetworkError", "UploadError",
     "Exception"}

\* the record upload_video returns to handle_upload
UploadedRecord == SuccessRecord("v1", [file_size |-> UPLOAD_CHUNK_SIZE])

\* render_sidebar without a button pressed, lines 152-185 and 210:
\* `auth` is what is_authenticated() answers, `cred` whether
\* get_credentials() then gives credentials
Sidebar(s, auth, cred) ==
    [s EXCEPT !.authenticated = auth,
              !.youtube_client = IF auth /\ ~s.youtube_client THEN cred ELSE @]

\* lines 258: the success screen is shown instead of the form
SuccessShown(s) == s.upload_complete /\ s.upload_result.success

\* lines 253-260: the form with the uploader and the buttons is rendered
FormShown(s) == s.authenticated /\ ~SuccessShown(s)

\* render_main_interface without a button pressed, lines 244-279
MainInterface(s, w) ==
    [s EXCEPT !.error_message = None,
              !.uploaded_file = IF FormShown(s) /\ w.video_uploader THEN TRUE ELSE @]

\* main, lines 679-682, and handle_upload up to the call of upload_video,
\* lines 573-581: the new session state, what the script does next, and
\* whether handle_upload was invoked
HandleUploadIfTriggered(s) ==
    IF s.uploaded_file /\ ~s.upload_complete /\ s.upload_clicked
    THEN IF ~s.youtube_client
         THEN [state |-> [s EXCEPT !.upload_clicked = FALSE,
                                   !.error_message = "NotInitialized"],
               script |-> "rerun", invoked |-> 1]
         ELSE [state |-> [s EXCEPT !.upload_clicked = FALSE],
               script |-> "uploading", invoked |-> 1]
    ELSE [state |-> s, script |-> "idle", invoked |-> 0]

AppInit ==
    /\ session_state = InitialSessionState
    /\ widgets = NoWidgets
    /\ script = "idle"
    /\ clicks = 0
    /\ invocations = 0
    /\ BodyUnused
    /\ ConstructUnused
    /\ RoundTripUnused
    /\ ManagerUnused
    /\ UploadUnused
    /\ ValidatorUnused

nonAppVars ==
    <<uploadVars, validateVars, authVars, constructVars, roundTripVars, bodyVars>>

\* one run of main() that no button started: after st.rerun() or after the
\* user changed a widget
Rerun ==
    /\ script = "rerun"
    /\ \E auth \in BOOLEAN, cred \in BOOLEAN :
         LET r == HandleUploadIfTriggered(
                      MainInterface(Sidebar(session_state, auth, cred), widgets))
         IN /\ session_state' = r.state
            /\ script' = r.script
            /\ invocations' = invocations + r.invoked
    /\ UNCHANGED <<widgets, clicks>>
    /\ UNCHANGED nonAppVars

\* the user selects or removes the video file, or edits the title
ChangeWidgets ==
    /\ script = "idle"
    /\ FormShown(session_state)
    /\ \E w \in [video_uploader : BOOLEAN, video_title : BOOLEAN] :
         /\ w # widgets
         /\ widgets' = w
    /\ script' = "rerun"
    /\ UNCHANGED <<session_state, clicks, invocations>>
    /\ UNCHANGED nonAppVars

\* the login button, lines 188-208: authenticate() returns or raises
Login ==
    /\ script = "idle"
    /\ ~session_state.authenticated
    /\ \E ok \in BOOLEAN :
         session_state' =
             IF ok
             THEN [session_state EXCEPT !.authenticated = TRUE,
                                        !.youtube_client = TRUE]
             ELSE [session_state EXCEPT !.error_message = "AuthenticationError"]
    /\ script' = "rerun"
    /\ UNCHANGED <<widgets, clicks, invocations>>
    /\ UNCHANGED nonAppVars

\* the logout button, lines 176-182
Logout ==
    /\ script = "idle"
    /\ session_state.authenticated
    /\ session_state' = [session_state EXCEPT !.authenticated = FALSE,
                                              !.youtube_client = FALSE]
    /\ script' = "rerun"
    /\ UNCHANGED <<widgets, clicks, invocations>>
    /\ UNCHANGED nonAppVars

\* the upload button, enabled with a title, lines 501-518; the run it
\* starts renders the sidebar first and reaches the button only when the
\* form is still shown
ClickUpload ==
    /\ script = "idle"
    /\ FormShown(session_state)
    /\ widgets.video_uploader
    /\ widgets.video_title
    /\ clicks < MaxClicks
    /\ clicks' = clicks + 1
    /\ \E auth \in BOOLEAN, cred \in BOOLEAN :
         LET s1 == MainInterface(Sidebar(session_state, auth, cred), widgets)
             r == HandleUploadIfTriggered(s1)
         IN IF FormShown(s1)
            THEN /\ session_state' = [s1 EXCEPT !.upload_complete = FALSE,
                                                !.upload_progress = 0,
                                                !.upload_clicked = TRUE]
                 /\ script' = "rerun"
                 /\ invocations' = invocations
            ELSE /\ session_state' = r.state
                 /\ script' = r.script
                 /\ invocations' = invocations + r.invoked
    /\ UNCHANGED widgets
    /\ UNCHANGED nonAppVars

ClickUploadAnotherKeepsComplete ==
    /\ script = "idle"
    /\ session_state.authenticated
    /\ SuccessShown(session_state)
    /\ session_state' = [session_state EXCEPT !.upload_result = NoResult,
                                              !.uploaded_file = FALSE,
                                              !.upload_progress = 0]
    /\ script' = "rerun"
    /\ UNCHANGED <<widgets, clicks, invocations>>
    /\ UNCHANGED nonAppVars

\* the "Upload Another Video" button of the success screen, lines 549-568
ClickUploadAnother ==
    /\ script = "idle"
    /\ session_state.authenticated
    /\ SuccessShown(session_state)
    /\ \E auth \in BOOLEAN :
         LET s1 == MainInterface(Sidebar(session_state, auth, TRUE), widgets)
             r == HandleUploadIfTriggered(s1)
         IN IF s1.authenticated
            THEN /\ session_state' = [s1 EXCEPT !.upload_complete = FALSE,
                                                !.upload_result = NoResult,
                                                !.uploaded_file = FALSE,
                                                !.upload_progress = 0]
                 /\ script' = "rerun"
            ELSE /\ session_state' = r.state
                 /\ script' = r.script
    /\ UNCHANGED <<widgets, clicks, invocations>>
    /\ UNCHANGED nonAppVars

\* progress_callback, lines 602-606
UploadProgress ==
    /\ script = "uploading"
    /\ session_state.upload_progress = 0
    /\ session_state' = [session_state EXCEPT !.upload_progress = 1]
    /\ UNCHANGED <<widgets, script, clicks, invocations>>
    /\ UNCHANGED nonAppVars

\* upload_video returns, lines 616-638
UploadSucceeds ==
    /\ script = "uploading"
    /\ session_state' = [session_state EXCEPT !.upload_result = UploadedRecord,
                                              !.upload_complete = TRUE,
                                              !.upload_clicked = FALSE]
    /\ script' = "rerun"
    /\ UNCHANGED <<widgets, clicks, invocations>>
    /\ UNCHANGED nonAppVars

\* upload_video raises, lines 640-664
UploadFails(e) ==
    /\ script = "uploading"
    /\ session_state' = [session_state EXCEPT !.error_message = e,
                                              !.upload_clicked = FALSE]
    /\ script' = "rerun"
    /\ UNCHANGED <<widgets, clicks, invocations>>
    /\ UNCHANGED nonAppVars

AppNext ==
    \/ Rerun
    \/ ChangeWidgets
    \/ Login
    \/ Logout
    \/ ClickUpload
    \/ ClickUploadAnother
    \/ UploadProgress
    \/ UploadSucceeds
    \/ \E e \in UploadErrorKinds : UploadFails(e)

AppSpec == AppInit /\ [][AppNext]_vars

\* C36: each click on the upload button leads to at most one handle_upload
\* invocation, upload_clicked is False after every outcome of the upload and
\* whenever the script has finished, and upload_complete is True only while
\* upload_result holds a success record.
C36_SessionStateConsistent ==
    /\ [](/\ invocations <= clicks
          /\ session_state.upload_complete => session_state.upload_result.success
          /\ script = "idle" => ~session_state.upload_clicked
          /\ script = "uploading" => ~session_state.upload_clicked)
    /\ [][ /\ invocations' # invocations
              => /\ invocations' = invocations + 1
                 /\ session_state.upload_clicked
                 /\ ~session_state'.upload_clicked
           /\ (script = "uploading" /\ script' # "uploading")
              => ~session_state'.upload_clicked ]_vars

C36_Witness ==
    /\ script = "idle"
    /\ clicks = MaxClicks
    /\ invocations = MaxClicks
    /\ session_state.upload_complete
    /\ session_state.upload_result = UploadedRecord
    /\ ~session_state.upload_clicked

C36_WitnessFailure ==
    /\ script = "rerun"
    /\ invocations = 1
    /\ session_state.error_message \in UploadErrorKinds
    /\ ~session_state.upload_complete
    /\ ~session_state.upload_clicked

====
